---- MODULE Spec2Model ----
(***************************************************************************)
(* Verification model of the STLD linker and the STAR archiver.            *)
(*                                                                         *)
(* The module holds several specifications over one set of variables:      *)
(*   SpecLink    the linker driver of src/src/stld/linker.c                *)
(*   SpecSymtab  the symbol table (contract of the symbol_table API)       *)
(*   SpecReloc   the relocation engine (contract of the relocation API)    *)
(*   SpecLayout  the section manager's layout (contract of the section API)*)
(*   SpecStar    the archive container of src/src/star                     *)
(* Each specification moves its own variables and leaves the others alone. *)
(***************************************************************************)
EXTENDS Integers, Sequences, FiniteSets, TLC

(***************************************************************************)
(* Bounds of the model.                                                    *)
(***************************************************************************)
MaxInputs == 2
MaxRelocs == 2
MaxSymbols == 3
MaxEntries == 2
MaxSections == 2
MaxMembers == 2
MaxRewrites == 1
MaxAllocs == 3
MaxFrees == 2

(***************************************************************************)
(* Program constants.                                                      *)
(***************************************************************************)
ERROR_SUCCESS == 0
ERROR_INVALID_ARGUMENT == -1
ERROR_OUT_OF_MEMORY == -2
ERROR_FILE_IO == -4
ERROR_PERMISSION_DENIED == -5
ERROR_CORRUPT_HEADER == -12
ERROR_SYMBOL_NOT_FOUND == -20
ERROR_DUPLICATE_SYMBOL == -21
ERROR_RELOCATION_FAILED == -23
ERROR_MEMBER_NOT_FOUND == -31

SMOF_BIND_LOCAL == 0
SMOF_BIND_GLOBAL == 1
SMOF_BIND_WEAK == 2

SMOF_RELOC_NONE == 0
SMOF_RELOC_ABS32 == 1
SMOF_RELOC_REL32 == 2
SMOF_RELOC_ABS16 == 3
SMOF_RELOC_GOT == 6
SMOF_RELOC_PLT == 7

STLD_OUTPUT_EXECUTABLE == 0
STLD_OUTPUT_BINARY_FLAT == 4

MEMORY_POOL_ALIGN == 8
MEMORY_POOL_MIN_SIZE == 64
MEMORY_POOL_MAX_SIZE == 1048576

SMOF_MAGIC == 1397575494
SMOF_VERSION_CURRENT == 1
SMOF_FLAG_LITTLE_ENDIAN == 256
SMOF_FLAG_BIG_ENDIAN == 512
SMOF_HEADER_SIZE == 36
SMOF_SECTION_SIZE == 20
SMOF_RELOCATION_SIZE == 8

ERROR_ARCHIVE_CORRUPT == -30
STAR_MAGIC == 1398030674
STAR_VERSION == 1
STAR_MAX_MEMBERS == 65535
STAR_HEADER_SIZE == 64
STAR_MEMBER_HEADER_SIZE == 128
STAR_FLAG_COMPRESSED == 1
STAR_FLAG_INDEXED == 2
STAR_FLAG_LITTLE_ENDIAN == 16
STAR_FLAG_BIG_ENDIAN == 32
STAR_COMPRESS_NONE == 0
STAR_COMPRESS_ZLIB == 2


VARIABLES
    context,    \* the stld_context, or NoContext
    link,       \* the position and locals of the running stld_link
    output,     \* the file at the output path
    last,       \* the last API call of the linker and what it returned
    symtab,     \* the symbol table, its error context and its call history
    engine,     \* the relocation engine: its entries, the section bytes, the report
    manager,    \* the section manager: its sections and whether layout is current
    star,       \* the archiver: input files, the archive file, the output directory
    reader,     \* header validation: the files read and what the readers returned
    pool        \* the memory pool, the blocks handed out and the last call on it

linkVars == <<context, link, output, last>>
nonLinkVars == <<symtab, engine, manager, star, reader, pool>>
nonSymtabVars == <<context, link, output, last, engine, manager, star, reader, pool>>
nonEngineVars == <<context, link, output, last, symtab, manager, star, reader, pool>>
nonManagerVars == <<context, link, output, last, symtab, engine, star, reader, pool>>
nonStarVars == <<context, link, output, last, symtab, engine, manager, reader, pool>>
nonReaderVars == <<context, link, output, last, symtab, engine, manager, star, pool>>
nonPoolVars == <<context, link, output, last, symtab, engine, manager, star, reader>>
vars == <<context, link, output, last, symtab, engine, manager, star, reader, pool>>

(***************************************************************************)
(* Symbol table: the contract of symbol_table_insert / symbol_table_lookup *)
(* (section 4.2 and tests/unit/stld/test_symbol_table.c; the               *)
(* implementation file src/src/stld/symbol_table.c is a placeholder).      *)
(* Only definitions are modelled; a handle is a position in the table.     *)
(***************************************************************************)
SYMBOL_HANDLE_INVALID == 0

SymNames == {"foo", "log"}
SymValues == {4096, 8192}
SymBindings == {SMOF_BIND_LOCAL, SMOF_BIND_GLOBAL, SMOF_BIND_WEAK}
SymbolInputs == [name : SymNames, binding : SymBindings, value : SymValues]

SymtabEmpty ==
    [ symbols |-> <<>>, error |-> ERROR_SUCCESS, inserted |-> <<>>,
      found |-> SYMBOL_HANDLE_INVALID ]

\* The entry a name resolves to across inputs: the live GLOBAL or WEAK
\* definition of that name (there is at most one), or no entry.
resolved_definition(symbols, name) ==
    LET hits == { k \in 1..Len(symbols) :
                    /\ symbols[k].name = name
                    /\ symbols[k].live
                    /\ symbols[k].binding # SMOF_BIND_LOCAL }
    IN  IF hits = {} THEN SYMBOL_HANDLE_INVALID
        ELSE CHOOSE k \in hits : \A j \in hits : k <= j

\* A variant of symbol_table_insert that appends every symbol it is given.
symbol_table_insert_no_duplicate_check(symbols, sym) ==
    [ symbols |-> Append(symbols, [name |-> sym.name, binding |-> sym.binding,
                                   value |-> sym.value, live |-> TRUE]),
      handle |-> Len(symbols) + 1,
      error |-> ERROR_SUCCESS ]

\* A variant of symbol_table_insert in which the definition seen first always
\* stays, whatever the bindings.
symbol_table_insert_first_always_wins(symbols, sym) ==
    LET entry == [name |-> sym.name, binding |-> sym.binding, value |-> sym.value,
                  live |-> TRUE]
        old == resolved_definition(symbols, sym.name)
    IN  IF sym.binding = SMOF_BIND_LOCAL \/ old = SYMBOL_HANDLE_INVALID
        THEN [symbols |-> Append(symbols, entry), handle |-> Len(symbols) + 1,
              error |-> ERROR_SUCCESS]
        ELSE IF sym.binding = SMOF_BIND_GLOBAL
                  /\ symbols[old].binding = SMOF_BIND_GLOBAL
        THEN [symbols |-> symbols, handle |-> SYMBOL_HANDLE_INVALID,
              error |-> ERROR_DUPLICATE_SYMBOL]
        ELSE [symbols |-> symbols, handle |-> old, error |-> ERROR_SUCCESS]

\* A variant of symbol_table_insert in which a LOCAL symbol collides with a
\* GLOBAL or WEAK definition of its name.
symbol_table_insert_local_collides(symbols, sym) ==
    LET entry == [name |-> sym.name, binding |-> sym.binding, value |-> sym.value,
                  live |-> TRUE]
        old == resolved_definition(symbols, sym.name)
    IN  IF old = SYMBOL_HANDLE_INVALID
        THEN [symbols |-> Append(symbols, entry), handle |-> Len(symbols) + 1,
              error |-> ERROR_SUCCESS]
        ELSE IF sym.binding \in {SMOF_BIND_GLOBAL, SMOF_BIND_LOCAL}
        THEN IF symbols[old].binding = SMOF_BIND_GLOBAL
             THEN [symbols |-> symbols, handle |-> SYMBOL_HANDLE_INVALID,
                   error |-> ERROR_DUPLICATE_SYMBOL]
             ELSE [symbols |-> Append([symbols EXCEPT ![old].live = FALSE], entry),
                   handle |-> Len(symbols) + 1, error |-> ERROR_SUCCESS]
        ELSE [symbols |-> symbols, handle |-> old, error |-> ERROR_SUCCESS]

\* symbol_table_insert: the table, the handle and the error it produces.
\*   LOCAL: always added.  GLOBAL over GLOBAL: DUPLICATE_SYMBOL, no handle.
\*   GLOBAL over WEAK: the weak entry is discarded, the global one added.
\*   WEAK over GLOBAL or WEAK: the new weak definition is discarded.
symbol_table_insert(symbols, sym) ==
    LET entry == [name |-> sym.name, binding |-> sym.binding, value |-> sym.value,
                  live |-> TRUE]
        old == resolved_definition(symbols, sym.name)
    IN  IF sym.binding = SMOF_BIND_LOCAL \/ old = SYMBOL_HANDLE_INVALID
        THEN [symbols |-> Append(symbols, entry), handle |-> Len(symbols) + 1,
              error |-> ERROR_SUCCESS]
        ELSE IF sym.binding = SMOF_BIND_GLOBAL
        THEN IF symbols[old].binding = SMOF_BIND_GLOBAL
             THEN [symbols |-> symbols, handle |-> SYMBOL_HANDLE_INVALID,
                   error |-> ERROR_DUPLICATE_SYMBOL]
             ELSE [symbols |-> Append([symbols EXCEPT ![old].live = FALSE], entry),
                   handle |-> Len(symbols) + 1, error |-> ERROR_SUCCESS]
        ELSE [symbols |-> symbols, handle |-> old, error |-> ERROR_SUCCESS]

\* symbol_table_lookup: the resolved definition of the name, else a LOCAL
\* symbol of that name, else no handle.
symbol_table_lookup(symbols, name) ==
    LET res == resolved_definition(symbols, name)
        locals == { k \in 1..Len(symbols) : symbols[k].name = name /\ symbols[k].live }
    IN  IF res # SYMBOL_HANDLE_INVALID THEN res
        ELSE IF locals = {} THEN SYMBOL_HANDLE_INVALID
        ELSE CHOOSE k \in locals : \A j \in locals : k <= j

\* A call of symbol_table_insert; the error context keeps an error once set.
SymtabInsert(sym) ==
    /\ Len(symtab.inserted) < MaxSymbols
    /\ LET r == symbol_table_insert(symtab.symbols, sym)
       IN  symtab' = [ symtab EXCEPT
                         !.symbols = r.symbols,
                         !.error = IF r.error # ERROR_SUCCESS THEN r.error ELSE @,
                         !.inserted = Append(@, [sym |-> sym, handle |-> r.handle,
                                                 error |-> r.error]) ]
    /\ UNCHANGED nonSymtabVars

\* A call of symbol_table_lookup.
SymtabLookup(name) ==
    /\ symtab' = [symtab EXCEPT !.found = symbol_table_lookup(symtab.symbols, name)]
    /\ UNCHANGED nonSymtabVars

\* error_context_clear.
SymtabClearError ==
    /\ symtab.error # ERROR_SUCCESS
    /\ symtab' = [symtab EXCEPT !.error = ERROR_SUCCESS]
    /\ UNCHANGED nonSymtabVars

(***************************************************************************)
(* Relocation engine: the contract of relocation_engine_add_entry and      *)
(* relocation_engine_process_all (section 4.4 and                          *)
(* tests/unit/stld/test_relocation.c; src/src/stld/relocation.c is a       *)
(* placeholder).  A symbol is given by whether it is defined and by its    *)
(* value S; the section is one zero-filled buffer.                         *)
(***************************************************************************)
RELOC_TYPE_ABS32 == "ABS32"
RELOC_TYPE_ABS16 == "ABS16"
RELOC_TYPE_ABS8 == "ABS8"
RELOC_OVERFLOW == "RELOC_OVERFLOW"
SYMBOL_NOT_FOUND == "SYMBOL_NOT_FOUND"
RelocApplied == "applied"
RelocPending == "pending"

EngineTypes == {RELOC_TYPE_ABS32, RELOC_TYPE_ABS16, RELOC_TYPE_ABS8}
EngineSymbols ==
    [defined : {TRUE}, value : {255, 32768, 65535, 305419896}]
        \cup {[defined |-> FALSE, value |-> 0]}
EngineAddends == {0, 1}
EngineOffsets == {0, 8}
EngineEntries ==
    [offset : EngineOffsets, type : EngineTypes, symbol : EngineSymbols,
     addend : EngineAddends]
SectionSize == 12
SectionData == [k \in 1..SectionSize |-> 0]

EngineEmpty ==
    [ entries |-> <<>>, data |-> SectionData, processed |-> FALSE,
      result |-> TRUE, unresolved |-> <<>>, errors |-> {} ]

\* The bytes of v, least significant first, in a field of `width` bytes.
LittleEndian(v, width) ==
    [k \in 1..width |->
        CASE k = 1 -> v % 256
          [] k = 2 -> (v \div 256) % 256
          [] k = 3 -> (v \div 65536) % 256
          [] OTHER -> (v \div 16777216) % 256]

\* The section bytes after `bytes` are stored at `offset`.
section_write(data, offset, bytes) ==
    [k \in 1..Len(data) |->
        IF k > offset /\ k <= offset + Len(bytes) THEN bytes[k - offset]
        ELSE data[k]]

\* A variant of apply_relocation that truncates an ABS16 value without a check.
apply_relocation_abs16_unchecked(entry) ==
    LET v == entry.symbol.value + entry.addend
    IN  IF ~entry.symbol.defined
        THEN [state |-> SYMBOL_NOT_FOUND, bytes |-> <<>>]
        ELSE CASE entry.type = RELOC_TYPE_ABS32 ->
                    [state |-> RelocApplied, bytes |-> LittleEndian(v, 4)]
               [] entry.type = RELOC_TYPE_ABS16 ->
                    [state |-> RelocApplied, bytes |-> LittleEndian(v, 2)]
               [] OTHER ->
                    [state |-> RelocApplied, bytes |-> LittleEndian(v, 1)]

\* What one entry comes to: its final state and the bytes it stores.
\*   undefined symbol: SYMBOL_NOT_FOUND, nothing stored;
\*   ABS32: S + A in 4 bytes;
\*   ABS16: S + A in 2 bytes, RELOC_OVERFLOW when it exceeds 0xFFFF;
\*   ABS8: the low byte of S + A (test_different_relocation_types stores
\*         0x8000 & 0xFF for S = 0x8000 and expects process_all to succeed).
apply_relocation(entry) ==
    LET v == entry.symbol.value + entry.addend
    IN  IF ~entry.symbol.defined
        THEN [state |-> SYMBOL_NOT_FOUND, bytes |-> <<>>]
        ELSE CASE entry.type = RELOC_TYPE_ABS32 ->
                    [state |-> RelocApplied, bytes |-> LittleEndian(v, 4)]
               [] entry.type = RELOC_TYPE_ABS16 ->
                    IF v > 65535
                    THEN [state |-> RELOC_OVERFLOW, bytes |-> <<>>]
                    ELSE [state |-> RelocApplied, bytes |-> LittleEndian(v, 2)]
               [] OTHER ->
                    [state |-> RelocApplied, bytes |-> LittleEndian(v, 1)]

\* The section bytes after the first n entries have been processed in order.
RECURSIVE process_data(_, _, _)
process_data(entries, data, n) ==
    IF n = 0 THEN data
    ELSE section_write(process_data(entries, data, n - 1), entries[n].offset,
                       apply_relocation(entries[n]).bytes)

\* relocation_engine_add_entry: the entry is queued, pending.
relocation_engine_add_entry(entry) ==
    /\ ~engine.processed
    /\ Len(engine.entries) < MaxEntries
    /\ engine' = [engine EXCEPT
                    !.entries = Append(@, [entry |-> entry, state |-> RelocPending,
                                           bytes |-> <<>>])]
    /\ UNCHANGED nonEngineVars

\* relocation_engine_process_all: every entry is attempted in order; the
\* result is false when any entry failed, and the failures are reported.
relocation_engine_process_all ==
    /\ ~engine.processed
    /\ LET plain == [k \in 1..Len(engine.entries) |-> engine.entries[k].entry]
           done == [k \in 1..Len(plain) |->
                      [entry |-> plain[k], state |-> apply_relocation(plain[k]).state,
                       bytes |-> apply_relocation(plain[k]).bytes]]
           failed == {k \in 1..Len(done) : done[k].state # RelocApplied}
           missing == {k \in 1..Len(done) : done[k].state = SYMBOL_NOT_FOUND}
       IN  engine' = [ entries |-> done,
                       data |-> process_data(plain, engine.data, Len(plain)),
                       processed |-> TRUE,
                       result |-> (failed = {}),
                       unresolved |-> SelectSeq([k \in 1..Len(done) |-> k],
                                                LAMBDA k : k \in missing),
                       errors |-> {done[k].state : k \in failed} ]
    /\ UNCHANGED nonEngineVars

\* relocation_engine_destroy followed by relocation_engine_create.
relocation_engine_create ==
    /\ engine.processed
    /\ engine' = EngineEmpty
    /\ UNCHANGED nonEngineVars

(***************************************************************************)
(* Section manager: the contract of section_manager_create_section,        *)
(* _set_alignment, _set_size, _assign_address and _calculate_layout        *)
(* (section 4.3 and tests/unit/stld/test_section.c; src/src/stld/section.c *)
(* is a placeholder).  Addresses are uint32_t, kept as two 16-bit halves.  *)
(***************************************************************************)
Half == 65536

SectionCategories == <<"text", "rodata", "data", "bss">>
SectionKinds == {"text", "data", "bss"}
AlignmentInputs == {0, 3, 16}
SizeInputs == {6}
BaseInputs ==
    { [hi |-> 1, lo |-> 0], [hi |-> 1, lo |-> 1], [hi |-> 65535, lo |-> 65530] }
AddressInputs == { [hi |-> 0, lo |-> 4098] }
Address0 == [hi |-> 0, lo |-> 0]

\* base is the base address of the latest section_manager_calculate_layout.
ManagerEmpty ==
    [sections |-> <<>>, laid_out |-> FALSE, result |-> TRUE, base |-> Address0]

\* a power of two >= 1 (an alignment is at most 2^15 here)
is_power_of_two(a) == a \in {1, 2, 4, 8, 16, 32, 64, 128, 256, 512, 1024, 2048,
                             4096, 8192, 16384, 32768}

\* addr + n in uint32_t arithmetic, n < 2^16
add32(addr, n) ==
    [ hi |-> (addr.hi + ((addr.lo + n) \div Half)) % Half,
      lo |-> (addr.lo + n) % Half ]

\* addr mod a
mod32(addr, a) == (((addr.hi % a) * (Half % a)) + addr.lo) % a

\* addr rounded up to the next multiple of a
align_up(addr, a) == add32(addr, (a - mod32(addr, a)) % a)

\* The positions of the sections in layout order: by category, input order
\* within a category.
RECURSIVE layout_order(_, _)
layout_order(sections, c) ==
    IF c > Len(SectionCategories) THEN <<>>
    ELSE SelectSeq([k \in 1..Len(sections) |-> k],
                   LAMBDA k : sections[k].category = SectionCategories[c])
           \o layout_order(sections, c + 1)

\* A variant of place_sections that packs the sections without rounding.
RECURSIVE place_sections_packed(_, _, _, _)
place_sections_packed(sections, order, n, base) ==
    IF n = 0 THEN [sections |-> sections, cursor |-> base]
    ELSE LET before == place_sections_packed(sections, order, n - 1, base)
             id == order[n]
         IN  [ sections |-> [before.sections EXCEPT ![id].virtual_addr = before.cursor],
               cursor |-> add32(before.cursor, sections[id].size) ]

\* A variant of place_sections that does not advance the cursor by the size.
RECURSIVE place_sections_stacked(_, _, _, _)
place_sections_stacked(sections, order, n, base) ==
    IF n = 0 THEN [sections |-> sections, cursor |-> base]
    ELSE LET before == place_sections_stacked(sections, order, n - 1, base)
             id == order[n]
             addr == align_up(before.cursor, sections[id].alignment)
         IN  [ sections |-> [before.sections EXCEPT ![id].virtual_addr = addr],
               cursor |-> addr ]

\* The first n sections of the order placed from base: the cursor is rounded
\* up to the section's alignment, assigned, and advanced by the size.
RECURSIVE place_sections(_, _, _, _)
place_sections(sections, order, n, base) ==
    IF n = 0 THEN [sections |-> sections, cursor |-> base]
    ELSE LET before == place_sections(sections, order, n - 1, base)
             id == order[n]
             addr == align_up(before.cursor, sections[id].alignment)
         IN  [ sections |-> [before.sections EXCEPT ![id].virtual_addr = addr],
               cursor |-> add32(addr, sections[id].size) ]

\* section_manager_create_section: alignment 1, no bytes, no address.
section_manager_create_section(kind) ==
    /\ Len(manager.sections) < MaxSections
    /\ manager' = [ sections |-> Append(manager.sections,
                                        [category |-> kind, alignment |-> 1,
                                         size |-> 0, virtual_addr |-> Address0]),
                    laid_out |-> FALSE, result |-> TRUE,
                    base |-> manager.base ]
    /\ UNCHANGED nonManagerVars

\* section_manager_set_alignment: zero and non-powers of two are rejected.
section_manager_set_alignment(id, a) ==
    /\ id \in 1..Len(manager.sections)
    /\ IF is_power_of_two(a)
       THEN manager' = [ sections |-> [manager.sections EXCEPT ![id].alignment = a],
                         laid_out |-> FALSE, result |-> TRUE,
                    base |-> manager.base ]
       ELSE manager' = [manager EXCEPT !.result = FALSE]
    /\ UNCHANGED nonManagerVars

\* section_manager_add_data / section_manager_set_size: the size grows to n.
section_manager_set_size(id, n) ==
    /\ id \in 1..Len(manager.sections)
    /\ manager.sections[id].size < n
    /\ manager' = [ sections |-> [manager.sections EXCEPT ![id].size = n],
                    laid_out |-> FALSE, result |-> TRUE,
                    base |-> manager.base ]
    /\ UNCHANGED nonManagerVars

\* section_manager_assign_address: an explicit address, taken as given.
section_manager_assign_address(id, addr) ==
    /\ id \in 1..Len(manager.sections)
    /\ manager' = [ sections |-> [manager.sections EXCEPT ![id].virtual_addr = addr],
                    laid_out |-> FALSE, result |-> TRUE,
                    base |-> manager.base ]
    /\ UNCHANGED nonManagerVars

\* section_manager_calculate_layout(base).
section_manager_calculate_layout(base) ==
    /\ LET order == layout_order(manager.sections, 1)
       IN  manager' = [ sections |-> place_sections(manager.sections, order,
                                                   Len(order), base).sections,
                        laid_out |-> TRUE, result |-> TRUE, base |-> base ]
    /\ UNCHANGED nonManagerVars

(***************************************************************************)
(* STAR archiver: src/src/star/archive.c and src/src/star/archiver.c.      *)
(* Bytes are 0..255; a uint32_t that is hashed or compared bytewise is     *)
(* four bytes, least significant first (the host is little-endian).        *)
(* A name is its characters' codes.  The archive file is its header, its   *)
(* member table at offset 64, and `blob`, the bytes that follow the table. *)
(***************************************************************************)
\* a XOR b for 4-bit values, bit by bit
xor4(a, b) ==
    ((a + b) % 2)
    + 2 * (((a \div 2) + (b \div 2)) % 2)
    + 4 * (((a \div 4) + (b \div 4)) % 2)
    + 8 * (((a \div 8) + (b \div 8)) % 2)

RECURSIVE xor4_row(_, _)
xor4_row(a, n) ==
    IF n = 0 THEN <<>> ELSE Append(xor4_row(a, n - 1), xor4(a, n - 1))

RECURSIVE xor4_rows(_)
xor4_rows(n) ==
    IF n = 0 THEN <<>> ELSE Append(xor4_rows(n - 1), xor4_row(n - 1, 16))

\* xor4_table[a + 1][b + 1] is a ^ b
xor4_table == xor4_rows(16)

\* a ^ b for bytes
xor8(a, b) ==
    xor4_table[(a % 16) + 1][(b % 16) + 1]
    + 16 * xor4_table[(a \div 16) + 1][(b \div 16) + 1]

\* a ^ b, c >> 1 and c >> 8 for uint32_t
xor32(a, b) ==
    << xor8(a[1], b[1]), xor8(a[2], b[2]), xor8(a[3], b[3]), xor8(a[4], b[4]) >>
shr32_1(c) ==
    << (c[1] \div 2) + 128 * (c[2] % 2), (c[2] \div 2) + 128 * (c[3] % 2),
       (c[3] \div 2) + 128 * (c[4] % 2), c[4] \div 2 >>
shr32_8(c) == << c[2], c[3], c[4], 0 >>

\* 0xedb88320 and 0xffffffff
CRC_POLY == <<32, 131, 184, 237>>
CRC_ONES == <<255, 255, 255, 255>>

\* init_crc32_table, the inner loop: k rounds on c.  (The test on `next`
\* only makes the value be computed before the recursion goes on.)
RECURSIVE crc32_rounds(_, _)
crc32_rounds(c, k) ==
    IF k = 0 THEN c
    ELSE LET next == IF c[1] % 2 = 1 THEN xor32(CRC_POLY, shr32_1(c)) ELSE shr32_1(c)
         IN  IF next[1] >= 0 THEN crc32_rounds(next, k - 1) ELSE next

crc32_entry(n) == crc32_rounds(<<n, 0, 0, 0>>, 8)

\* init_crc32_table, the outer loop, sixteen entries at a time: the entries
\* n .. n + k - 1, and the first 16 * n entries
RECURSIVE crc32_row(_, _)
crc32_row(n, k) ==
    IF k = 0 THEN <<>> ELSE Append(crc32_row(n, k - 1), crc32_entry(n + k - 1))

RECURSIVE crc32_rows(_)
crc32_rows(n) ==
    IF n = 0 THEN <<>> ELSE crc32_rows(n - 1) \o crc32_row(16 * (n - 1), 16)

\* crc32_table[n + 1] is the code's crc32_table[n]
crc32_table == crc32_rows(16)

\* archive_calculate_checksum, the loop from byte i on
RECURSIVE crc32_update(_, _, _)
crc32_update(crc, buf, i) ==
    IF i > Len(buf) THEN crc
    ELSE LET next == xor32(crc32_table[xor8(crc[1], buf[i]) + 1], shr32_8(crc))
         IN  IF next[1] >= 0 THEN crc32_update(next, buf, i + 1) ELSE next

archive_calculate_checksum(data) ==
    xor32(crc32_update(CRC_ONES, data, 1), CRC_ONES)

\* the bytes of a uint16_t / uint32_t field as the host stores it
LE16(v) == << v % 256, (v \div 256) % 256 >>
LE32(v) == << v % 256, (v \div 256) % 256, (v \div 65536) % 256,
              (v \div 16777216) % 256 >>
Zeros(n) == [k \in 1..n |-> 0]

\* Input files: a path is the characters "a" or "b"; a file may be missing,
\* empty, or hold bytes.  st_mtime is the same for all.
MemberNames == { <<97>>, <<98>> }
FileContents == { <<>>, <<7, 9>> }
FileTime == 1600000000
NoFile == [exists |-> FALSE, data |-> <<>>]
Files == {NoFile} \cup [exists : {TRUE}, data : FileContents]
NoFiles == [name \in MemberNames |-> NoFile]

\* time(NULL) at archive creation
Times == {1700000000}

\* star_options_t: the field archive_create reads that varies here
StarOptions ==
    [compression : {STAR_COMPRESS_NONE, STAR_COMPRESS_ZLIB}, create_index : {TRUE}]

\* A checksum field (of the header, of a member header).  A value stored by
\* archive_write_header or archive_add_member_from_file is kept as the bytes
\* it is the CRC-32 of; checksum_value computes the 32-bit value where the
\* field is read.
ChecksumZero == [stored |-> FALSE, of |-> <<>>]
ChecksumOf(bytes) == [stored |-> TRUE, of |-> bytes]
checksum_value(c) ==
    IF c.stored THEN archive_calculate_checksum(c.of) ELSE <<0, 0, 0, 0>>

\* star_header_t, all zero (memset, or bytes of a file never written)
ZeroHeader ==
    [ magic |-> 0, version |-> 0, flags |-> 0, member_count |-> 0,
      index_offset |-> 0, index_size |-> 0, member_table_offset |-> 0,
      string_table_offset |-> 0, string_table_size |-> 0, creation_time |-> 0,
      checksum |-> ChecksumZero ]

\* The archive file: absent; or present with `size_ok` telling that it holds
\* at least the 64 header bytes.
NoArchive ==
    [exists |-> FALSE, size_ok |-> FALSE, header |-> ZeroHeader, table |-> <<>>,
     blob |-> <<>>]
EmptyArchiveFile == [NoArchive EXCEPT !.exists = TRUE]

\* the first sizeof(star_header_t) - sizeof(uint32_t) bytes of the header
header_bytes(h) ==
    LE32(h.magic) \o LE16(h.version) \o LE16(h.flags) \o LE32(h.member_count)
    \o LE32(h.index_offset) \o LE32(h.index_size) \o LE32(h.member_table_offset)
    \o LE32(h.string_table_offset) \o LE32(h.string_table_size)
    \o LE32(h.creation_time) \o checksum_value(h.checksum) \o Zeros(20)

\* archive_validate_header
archive_validate_header(h) ==
    /\ h.magic = STAR_MAGIC
    /\ h.version = STAR_VERSION
    /\ h.member_count <= STAR_MAX_MEMBERS
    /\ ~(h.member_table_offset > 0 /\ h.member_table_offset < STAR_HEADER_SIZE)
    /\ ~(h.string_table_offset > 0 /\ h.string_table_offset < STAR_HEADER_SIZE)

\* the C string that starts at offset `off` of a string table
RECURSIVE cstring(_, _)
cstring(table, off) ==
    IF off >= Len(table) \/ table[off + 1] = 0 THEN <<>>
    ELSE <<table[off + 1]>> \o cstring(table, off + 1)

\* archive_add_string, the search: the offset of str among the strings that
\* start at or after i, or -1
RECURSIVE find_string(_, _, _)
find_string(table, str, i) ==
    IF i >= Len(table) THEN -1
    ELSE IF cstring(table, i) = str THEN i
    ELSE find_string(table, str, i + Len(cstring(table, i)) + 1)

\* archive_add_string: the table and the offset of str in it
archive_add_string(table, str) ==
    IF find_string(table, str, 0) >= 0
    THEN [table |-> table, offset |-> find_string(table, str, 0)]
    ELSE [table |-> table \o str \o <<0>>, offset |-> Len(table)]

\* archive_create: the handle after fopen "wb+" found no header to read
archive_create(options, now) ==
    [ header |-> [ZeroHeader EXCEPT
                    !.magic = STAR_MAGIC, !.version = STAR_VERSION,
                    !.creation_time = now, !.string_table_size = 1,
                    !.flags = (IF options.compression # STAR_COMPRESS_NONE
                               THEN STAR_FLAG_COMPRESSED ELSE 0)
                              + (IF options.create_index THEN STAR_FLAG_INDEXED ELSE 0)
                              + STAR_FLAG_LITTLE_ENDIAN],
      members |-> <<>>,
      string_table |-> <<0>>,
      result |-> ERROR_SUCCESS ]

\* archive_add_member_from_file: the handle with the member appended, or the
\* error.  malloc0 tells whether malloc(0) yields a pointer.
archive_add_member_from_file(archive, name, fs, malloc0) ==
    IF ~fs[name].exists THEN [archive EXCEPT !.result = ERROR_FILE_IO]
    ELSE IF Len(fs[name].data) = 0 /\ ~malloc0
    THEN [archive EXCEPT !.result = ERROR_OUT_OF_MEMORY]
    ELSE LET strings == archive_add_string(archive.string_table, name)
             member ==
                 [ header |-> [ name_offset |-> strings.offset,
                                size |-> Len(fs[name].data),
                                compressed_size |-> Len(fs[name].data),
                                data_offset |-> 0,
                                checksum |-> ChecksumOf(fs[name].data),
                                timestamp |-> FileTime,
                                flags |-> 0, compression |-> 0 ],
                   name |-> name, data |-> fs[name].data, data_loaded |-> TRUE ]
         IN  [ header |-> [archive.header EXCEPT
                             !.string_table_size = Len(strings.table),
                             !.member_count = @ + 1],
               members |-> Append(archive.members, member),
               string_table |-> strings.table,
               result |-> ERROR_SUCCESS ]

\* star_create_archive, the loop over file_list: stops at the first failure.
RECURSIVE add_files(_, _, _, _, _)
add_files(archive, file_list, n, fs, malloc0) ==
    IF n = 0 THEN archive
    ELSE LET before == add_files(archive, file_list, n - 1, fs, malloc0)
         IN  IF before.result # ERROR_SUCCESS THEN before
             ELSE archive_add_member_from_file(before, file_list[n], fs, malloc0)

\* the sum of the sizes of the first n members
RECURSIVE data_before(_, _)
data_before(members, n) ==
    IF n = 0 THEN 0 ELSE data_before(members, n - 1) + members[n].header.size

\* the data of the first n members, one after the other (a member without
\* loaded data has none)
RECURSIVE data_written(_, _)
data_written(members, n) ==
    IF n = 0 THEN <<>> ELSE data_written(members, n - 1) \o members[n].data

\* archive_write_header: offsets, then the checksum over the first 60 bytes of
\* the header as it stands (its checksum field included).
archive_write_header(header) ==
    LET h == [header EXCEPT
                !.member_table_offset = STAR_HEADER_SIZE,
                !.string_table_offset =
                    STAR_HEADER_SIZE + header.member_count * STAR_MEMBER_HEADER_SIZE]
    IN  [h EXCEPT !.checksum = ChecksumOf(header_bytes(h))]

\* bytes written from the start of `old` on, over what was there
write_over(old, bytes) == bytes \o SubSeq(old, Len(bytes) + 1, Len(old))

\* archive_finalize on a handle whose file holds `file`: the result and the
\* file it leaves.  The member table, the string table and the data of the
\* members that have data loaded are written in this order, the data at the
\* file position the string table's fwrite left; writing the data of a member
\* uses fwrite(data, size, 1, file) != 1 as the failure test, which is met by
\* a member of size 0; the header is written last.
archive_finalize(archive, file) ==
    LET n == archive.header.member_count
        string_table_offset == STAR_HEADER_SIZE + n * STAR_MEMBER_HEADER_SIZE
        data_offset == string_table_offset + archive.header.string_table_size
        table == [i \in 1..n |->
                    [archive.members[i].header EXCEPT
                       !.data_offset = data_offset + data_before(archive.members, i - 1)]]
        empty == { i \in 1..n : archive.members[i].data_loaded
                                  /\ archive.members[i].header.size = 0 }
    IN  IF empty # {}
        THEN LET z == CHOOSE i \in empty : \A j \in empty : i <= j
             IN  [ result |-> ERROR_FILE_IO,
                   file |-> [ exists |-> TRUE, size_ok |-> TRUE, header |-> file.header,
                              table |-> table,
                              blob |-> write_over(file.blob,
                                           archive.string_table
                                             \o data_written(archive.members, z - 1)) ] ]
        ELSE [ result |-> ERROR_SUCCESS,
               file |-> [ exists |-> TRUE, size_ok |-> TRUE,
                          header |-> archive_write_header(archive.header),
                          table |-> table,
                          blob |-> write_over(file.blob,
                                       archive.string_table
                                         \o data_written(archive.members, n)) ] ]

\* No star_list_archive call has been made since the latest other operation.
NoListing == [called |-> FALSE, capacity |-> 0, entries |-> <<>>, count |-> 0,
              result |-> ERROR_SUCCESS]

StarIdle ==
    [ fs |-> NoFiles, disk |-> NoArchive, out |-> NoFiles,
      last |-> [op |-> "none", result |-> ERROR_SUCCESS, list |-> <<>>],
      extracted |-> <<>>, tampered |-> FALSE, rewrites |-> 0, progress |-> <<>>,
      listing |-> NoListing ]

\* star_create_archive(context, archive_path, file_list, file_count), with a
\* progress callback set: star.progress lists the percentages it is given,
\* 0 at the start, (i + 1) * 90 / file_count after each file added, and 100
\* after archive_finalize and archive_close.  (The list is kept until the next
\* operation.)
star_create_archive(options, file_list, now, malloc0) ==
    /\ IF file_list = <<>>
       THEN star' = [star EXCEPT
                       !.listing = NoListing,
                       !.progress = <<>>,
                       !.last = [op |-> "create", result |-> ERROR_INVALID_ARGUMENT,
                                 list |-> file_list]]
       ELSE LET added == add_files(archive_create(options, now), file_list,
                                   Len(file_list), star.fs, malloc0)
                final == archive_finalize(added, EmptyArchiveFile)
                adding == <<0>> \o [k \in 1..Len(added.members) |->
                                      (k * 90) \div Len(file_list)]
            IN  IF added.result # ERROR_SUCCESS
                THEN star' = [star EXCEPT
                                !.listing = NoListing,
                                !.disk = EmptyArchiveFile, !.tampered = FALSE, !.rewrites = 0,
                                !.progress = adding,
                                !.last = [op |-> "create", result |-> added.result,
                                          list |-> file_list]]
                ELSE star' = [star EXCEPT
                                !.listing = NoListing,
                                !.disk = final.file, !.tampered = FALSE, !.rewrites = 0,
                                !.progress = Append(adding, 100),
                                !.last = [op |-> "create", result |-> final.result,
                                          list |-> file_list]]
    /\ UNCHANGED nonStarVars

\* fseek to `offset` and fread of `size` bytes as one item, for offsets at or
\* after the end of the member table: whether the item was read, and its bytes.
\* (fread of an item of size 0 reads no item.)
read_item(file, offset, size) ==
    LET start == STAR_HEADER_SIZE + Len(file.table) * STAR_MEMBER_HEADER_SIZE
    IN  IF size = 0 \/ offset < start \/ offset - start + size > Len(file.blob)
        THEN [ok |-> FALSE, bytes |-> <<>>]
        ELSE [ok |-> TRUE,
              bytes |-> SubSeq(file.blob, offset - start + 1, offset - start + size)]

\* archive_open(path, "rb"): whether a handle is returned.
archive_open(file) ==
    file.exists /\ file.size_ok /\ archive_validate_header(file.header)

\* archive_load_members: the result and the members (header, name; no data).
\* (On its error returns the caller's archive_close frees pointers of the
\* members array that were never set.)
archive_load_members(file) ==
    LET h == file.header
        strings == read_item(file, h.string_table_offset, h.string_table_size)
    IN  IF h.member_count = 0 THEN [result |-> ERROR_SUCCESS, members |-> <<>>]
        ELSE IF h.string_table_size > 0 /\ ~strings.ok
        THEN [result |-> ERROR_FILE_IO, members |-> <<>>]
        ELSE IF h.member_table_offset # STAR_HEADER_SIZE \/ h.member_count > Len(file.table)
        THEN [result |-> ERROR_FILE_IO, members |-> <<>>]
        ELSE [ result |-> ERROR_SUCCESS,
               members |->
                 [i \in 1..h.member_count |->
                    [ header |-> file.table[i],
                      has_name |-> file.table[i].name_offset < h.string_table_size,
                      name |-> IF file.table[i].name_offset < h.string_table_size
                               THEN cstring(strings.bytes, file.table[i].name_offset)
                               ELSE <<>> ]] ]

\* The data of one member loaded from the file and written to its output
\* file by archive_extract_member: malloc(size), fseek and fread of one item
\* of `size` bytes, fopen "wb", fwrite of one item.  No checksum is computed.
extract_member(file, member, malloc0) ==
    LET item == read_item(file, member.header.data_offset, member.header.size)
    IN  IF member.header.size = 0 /\ ~malloc0
        THEN [result |-> ERROR_OUT_OF_MEMORY, data |-> <<>>]
        ELSE IF ~item.ok THEN [result |-> ERROR_FILE_IO, data |-> <<>>]
        ELSE [result |-> ERROR_SUCCESS, data |-> item.bytes]

\* star_extract_archive, the loop over all members: the first n of them.
\* `run` is the result so far, the output files and the members written
\* (index, name, the checksum field of the member's header, bytes written).
RECURSIVE extract_all(_, _, _, _, _)
extract_all(file, members, n, run, malloc0) ==
    IF n = 0 THEN run
    ELSE LET before == extract_all(file, members, n - 1, run, malloc0)
             one == extract_member(file, members[n], malloc0)
         IN  IF before.result # ERROR_SUCCESS \/ ~members[n].has_name THEN before
             ELSE IF one.result # ERROR_SUCCESS
             THEN [before EXCEPT !.result = one.result]
             ELSE [ result |-> ERROR_SUCCESS,
                    out |-> [before.out EXCEPT ![members[n].name] =
                                [exists |-> TRUE, data |-> one.data]],
                    extracted |-> Append(before.extracted,
                                         [index |-> n, name |-> members[n].name,
                                          checksum |-> members[n].header.checksum,
                                          data |-> one.data]) ]

\* archive_find_member: the index of the first member of that name, or 0
archive_find_member(members, name) ==
    LET hits == { i \in 1..Len(members) : members[i].has_name /\ members[i].name = name }
    IN  IF hits = {} THEN 0 ELSE CHOOSE i \in hits : \A j \in hits : i <= j

\* star_extract_archive, the loop over member_list: its first n names.
RECURSIVE extract_listed(_, _, _, _, _, _)
extract_listed(file, members, member_list, n, run, malloc0) ==
    IF n = 0 THEN run
    ELSE LET before == extract_listed(file, members, member_list, n - 1, run, malloc0)
             i == archive_find_member(members, member_list[n])
             one == extract_member(file, members[i], malloc0)
         IN  IF before.result # ERROR_SUCCESS THEN before
             ELSE IF i = 0 THEN [before EXCEPT !.result = ERROR_MEMBER_NOT_FOUND]
             ELSE IF one.result # ERROR_SUCCESS
             THEN [before EXCEPT !.result = one.result]
             ELSE [ result |-> ERROR_SUCCESS,
                    out |-> [before.out EXCEPT ![members[i].name] =
                                [exists |-> TRUE, data |-> one.data]],
                    extracted |-> Append(before.extracted,
                                         [index |-> i, name |-> members[i].name,
                                          checksum |-> members[i].header.checksum,
                                          data |-> one.data]) ]

\* star_extract_archive(context, archive_path, output_dir, member_list,
\* member_count) into a new, empty output directory; an empty member_list
\* extracts all.  star.out is the directory of the latest call.
star_extract_archive(member_list, malloc0) ==
    /\ LET loaded == archive_load_members(star.disk)
           start == [result |-> ERROR_SUCCESS, out |-> NoFiles, extracted |-> <<>>]
           run == IF member_list = <<>>
                  THEN extract_all(star.disk, loaded.members, Len(loaded.members),
                                   start, malloc0)
                  ELSE extract_listed(star.disk, loaded.members, member_list,
                                      Len(member_list), start, malloc0)
       IN  IF ~archive_open(star.disk)
           THEN star' = [star EXCEPT
                           !.listing = NoListing, !.progress = <<>>,
                           !.out = NoFiles, !.extracted = <<>>,
                           !.last = [op |-> "extract", result |-> ERROR_FILE_IO,
                                     list |-> member_list]]
           ELSE IF loaded.result # ERROR_SUCCESS
           THEN star' = [star EXCEPT
                           !.listing = NoListing, !.progress = <<>>,
                           !.out = NoFiles, !.extracted = <<>>,
                           !.last = [op |-> "extract", result |-> loaded.result,
                                     list |-> member_list]]
           ELSE star' = [star EXCEPT
                           !.listing = NoListing, !.progress = <<>>,
                           !.out = run.out, !.extracted = run.extracted,
                           !.last = [op |-> "extract", result |-> run.result,
                                     list |-> member_list]]
    /\ UNCHANGED nonStarVars

\* Something outside the archiver changes one byte of a member's stored data
\* in the archive file (once per archive).
StarTamper(p, v) ==
    /\ archive_open(star.disk)
    /\ ~star.tampered
    /\ p \in 1..Len(star.disk.blob)
    /\ p > star.disk.header.string_table_size
    /\ star.disk.blob[p] # v
    /\ star' = [star EXCEPT !.disk.blob[p] = v, !.tampered = TRUE,
                              !.listing = NoListing]
    /\ UNCHANGED nonStarVars

\* archive_open(path, "rb+") and archive_load_members on a file with a valid
\* header: the handle.  No member has its data loaded.
archive_open_update(file) ==
    LET loaded == archive_load_members(file)
        strings == read_item(file, file.header.string_table_offset,
                             file.header.string_table_size)
    IN  [ header |-> file.header,
          members |-> [i \in 1..Len(loaded.members) |->
                         [ header |-> loaded.members[i].header,
                           name |-> loaded.members[i].name,
                           data |-> <<>>, data_loaded |-> FALSE ]],
          string_table |-> strings.bytes,
          result |-> loaded.result ]

\* Re-serializing the archive file: archive_open(path, "rb+"),
\* archive_load_members, archive_finalize, archive_close.  A file shorter
\* than a header gives a handle with a new header, no member and no string
\* table, for which archive_finalize's fwrite of the string table (size 0)
\* writes no item and fails.
archive_reopen_finalize ==
    /\ star.rewrites < MaxRewrites
    /\ LET handle == archive_open_update(star.disk)
           final == archive_finalize(handle, star.disk)
           result == IF ~star.disk.exists \/ ~star.disk.size_ok
                        \/ ~archive_validate_header(star.disk.header)
                     THEN ERROR_FILE_IO
                     ELSE IF handle.result # ERROR_SUCCESS THEN handle.result
                     ELSE final.result
           ran == /\ archive_open(star.disk)
                  /\ handle.result = ERROR_SUCCESS
       IN  star' = [star EXCEPT
                      !.listing = NoListing, !.progress = <<>>,
                      !.disk = IF ran THEN final.file ELSE @,
                      !.rewrites = @ + 1,
                      !.last = [op |-> "rewrite", result |-> result, list |-> <<>>]]
    /\ UNCHANGED nonStarVars

\* Adding a member to an existing archive: archive_open(path, "rb+") on a file
\* with a valid header, archive_load_members, archive_add_member_from_file,
\* archive_finalize, archive_close.  The members read from the file have no
\* data loaded; the one added has.
archive_append_member(name, malloc0) ==
    /\ star.rewrites < MaxRewrites
    /\ archive_open(star.disk)
    /\ LET handle == archive_open_update(star.disk)
           added == archive_add_member_from_file(handle, name, star.fs, malloc0)
           \* the member table grows by one entry: what the file holds after
           \* the new table starts STAR_MEMBER_HEADER_SIZE bytes further on
           behind == [star.disk EXCEPT
                        !.blob = SubSeq(@, STAR_MEMBER_HEADER_SIZE + 1, Len(@))]
           final == archive_finalize(added, behind)
           ran == handle.result = ERROR_SUCCESS /\ added.result = ERROR_SUCCESS
           result == IF handle.result # ERROR_SUCCESS THEN handle.result
                     ELSE IF added.result # ERROR_SUCCESS THEN added.result
                     ELSE final.result
       IN  star' = [star EXCEPT
                      !.listing = NoListing, !.progress = <<>>,
                      !.disk = IF ran THEN final.file ELSE @,
                      !.rewrites = @ + 1,
                      !.last = [op |-> "append", result |-> result, list |-> <<name>>]]
    /\ UNCHANGED nonStarVars

\* star_delete_members(context, archive_path, member_list, member_count):
\* checks its arguments and returns; the archive file is not opened.
star_delete_members(member_list) ==
    /\ star' = [star EXCEPT
                   !.listing = NoListing, !.progress = <<>>,
                   !.last = [op |-> "delete",
                             result |-> IF member_list = <<>>
                                        THEN ERROR_INVALID_ARGUMENT ELSE ERROR_SUCCESS,
                             list |-> member_list]]
    /\ UNCHANGED nonStarVars

(***************************************************************************)

\* star_list_archive(context, archive_path, members, count) with *count =
\* capacity on entry: the entries written to members[] (archive_get_member_info
\* of the first members, as many as the loop copies), the value left in *count
\* and the result.  star.listing is the outcome of the latest call.
star_list_archive(capacity) ==
    /\ LET loaded == archive_load_members(star.disk)
           member_count == star.disk.header.member_count
           copied == IF member_count < capacity THEN member_count ELSE capacity
       IN  IF ~archive_open(star.disk)
           THEN star' = [star EXCEPT
                           !.listing = [called |-> TRUE, capacity |-> capacity,
                                        entries |-> <<>>, count |-> 0,
                                        result |-> ERROR_FILE_IO]]
           ELSE IF loaded.result # ERROR_SUCCESS
           THEN star' = [star EXCEPT
                           !.listing = [called |-> TRUE, capacity |-> capacity,
                                        entries |-> <<>>, count |-> 0,
                                        result |-> loaded.result]]
           ELSE star' = [star EXCEPT
                           !.listing =
                               [called |-> TRUE, capacity |-> capacity,
                                entries |-> [i \in 1..copied |->
                                               [name |-> loaded.members[i].name,
                                                size |-> loaded.members[i].header.size]],
                                count |-> member_count,
                                result |-> ERROR_SUCCESS]]
    /\ UNCHANGED nonStarVars

(* Memory pool: src/src/common/memory.c.  A pointer into the pool is the   *)
(* offset from pool->data; NullPtr is NULL.                                *)
(***************************************************************************)
NullPtr == -1

\* No pool (memory_pool_create not called, or it returned NULL).
NoPool ==
    [ exists |-> FALSE, size |-> 0, used |-> 0, peak_used |-> 0,
      allocations |-> 0, deallocations |-> 0, alignment |-> 0, free_ptr |-> 0,
      blocks |-> {}, first |-> NullPtr,
      last |-> [op |-> "none", ptr |-> NullPtr, size |-> 0] ]

\* memory_align_size, for the power-of-two alignments the pool uses
memory_align_size(size, alignment) ==
    IF alignment = 0 \/ alignment = 1 THEN size
    ELSE ((size + alignment - 1) \div alignment) * alignment

\* memory_pool_create: the pool, or NoPool for a size out of range.
memory_pool_create(size) ==
    IF size < MEMORY_POOL_MIN_SIZE \/ size > MEMORY_POOL_MAX_SIZE
    THEN [NoPool EXCEPT !.last = [op |-> "create", ptr |-> NullPtr, size |-> size]]
    ELSE [NoPool EXCEPT !.exists = TRUE, !.size = size,
                        !.alignment = MEMORY_POOL_ALIGN,
                        !.last = [op |-> "create", ptr |-> 0, size |-> size]]

\* memory_pool_get_used, memory_pool_get_available
memory_pool_get_used(p) == IF p.exists THEN p.used ELSE 0
memory_pool_get_available(p) == IF p.exists THEN p.size - p.used ELSE 0

\* memory_pool_alloc: the pointer returned and the pool after the call.
memory_pool_alloc(p, size) ==
    LET aligned_size == memory_align_size(size, p.alignment)
    IN  IF ~p.exists \/ size = 0 THEN [ptr |-> NullPtr, pool |-> p]
        ELSE IF p.used + aligned_size > p.size THEN [ptr |-> NullPtr, pool |-> p]
        ELSE [ ptr |-> p.free_ptr,
               pool |-> [p EXCEPT
                           !.free_ptr = @ + aligned_size,
                           !.used = @ + aligned_size,
                           !.allocations = @ + 1,
                           !.peak_used = IF p.used + aligned_size > @
                                         THEN p.used + aligned_size ELSE @] ]

\* A variant of memory_pool_free that gives the block back when it is the last
\* one handed out.
memory_pool_free_releases_last(p, ptr, size) ==
    IF p.exists /\ ptr # NullPtr
    THEN IF ptr + memory_align_size(size, p.alignment) = p.free_ptr
         THEN [p EXCEPT !.deallocations = @ + 1, !.free_ptr = ptr,
                        !.used = @ - memory_align_size(size, p.alignment)]
         ELSE [p EXCEPT !.deallocations = @ + 1]
    ELSE p

\* memory_pool_free: the pool after the call (`size` is the size the block at
\* ptr was allocated with; the code does not use it).
memory_pool_free(p, ptr, size) ==
    IF p.exists /\ ptr # NullPtr
    THEN [p EXCEPT !.deallocations = @ + 1]
    ELSE p

\* A variant of memory_pool_reset that rewinds free_ptr and keeps `used`.
memory_pool_reset_keeps_used(p) ==
    IF p.exists THEN [p EXCEPT !.free_ptr = 0] ELSE p

\* memory_pool_reset: the pool after the call.
memory_pool_reset(p) ==
    IF p.exists THEN [p EXCEPT !.used = 0, !.free_ptr = 0] ELSE p

\* The calls on the pool.  `blocks` are the blocks the caller holds, `first`
\* the first pointer the pool ever returned.
PoolCreate(size) ==
    /\ ~pool.exists
    /\ pool' = memory_pool_create(size)
    /\ UNCHANGED nonPoolVars

PoolAlloc(size) ==
    /\ pool.exists
    /\ pool.allocations < MaxAllocs
    /\ LET r == memory_pool_alloc(pool, size)
       IN  pool' = [r.pool EXCEPT
                      !.blocks = IF r.ptr # NullPtr
                                 THEN @ \cup {[ptr |-> r.ptr, size |-> size]} ELSE @,
                      !.first = IF @ = NullPtr THEN r.ptr ELSE @,
                      !.last = [op |-> "alloc", ptr |-> r.ptr, size |-> size]]
    /\ UNCHANGED nonPoolVars

PoolFree(block) ==
    /\ pool.exists
    /\ pool.deallocations < MaxFrees
    /\ block \in pool.blocks
    /\ pool' = [memory_pool_free(pool, block.ptr, block.size) EXCEPT
                  !.blocks = @ \ {block},
                  !.last = [op |-> "free", ptr |-> block.ptr, size |-> block.size]]
    /\ UNCHANGED nonPoolVars

PoolReset ==
    /\ pool.exists
    /\ pool.last.op # "reset"
    /\ pool' = [memory_pool_reset(pool) EXCEPT
                  !.blocks = {},
                  !.last = [op |-> "reset", ptr |-> NullPtr, size |-> 0]]
    /\ UNCHANGED nonPoolVars

(***************************************************************************)
(* SMOF header validation: src/src/common/smof.c, and the files the header *)
(* readers are given                                                       *)
(***************************************************************************)
\* smof_header_t, all zero
ZeroSmofHeader ==
    [ magic |-> 0, version |-> 0, flags |-> 0, entry_point |-> 0,
      section_count |-> 0, symbol_count |-> 0, string_table_offset |-> 0,
      string_table_size |-> 0, section_table_offset |-> 0,
      reloc_table_offset |-> 0, reloc_count |-> 0, import_count |-> 0 ]

\* An input file of the linker: absent, or `size` bytes that start with `header`
\* (the header fields are what fread finds when size >= sizeof(smof_header_t)).
NoSmofFile == [exists |-> FALSE, size |-> 0, header |-> ZeroSmofHeader]

\* Nothing read yet.
ReaderIdle ==
    [ smof |-> NoSmofFile, star |-> NoArchive,
      loaded |-> FALSE, result |-> ERROR_SUCCESS,
      opened |-> FALSE, handle |-> FALSE ]

\* flags & bit, for a single-bit mask
flag_set(flags, bit) == (flags \div bit) % 2 = 1

\* smof_validate_header
smof_validate_header(h) ==
    LET le == flag_set(h.flags, SMOF_FLAG_LITTLE_ENDIAN)
        be == flag_set(h.flags, SMOF_FLAG_BIG_ENDIAN)
        little_endian == IF ~le /\ ~be THEN flag_set(h.flags, 16) ELSE le
        big_endian == IF ~le /\ ~be THEN flag_set(h.flags, 32) ELSE be
        section_table_size == h.section_count * SMOF_SECTION_SIZE
        reloc_table_size == h.reloc_count * SMOF_RELOCATION_SIZE
    IN  /\ h.magic = SMOF_MAGIC
        /\ h.version <= SMOF_VERSION_CURRENT
        /\ ~(little_endian /\ big_endian)
        /\ (little_endian \/ big_endian)
        /\ h.section_count <= 256
        /\ h.symbol_count <= 32767
        /\ h.string_table_size <= 1048576
        /\ ~(h.section_table_offset > 0 /\ h.section_table_offset < SMOF_HEADER_SIZE)
        /\ ~(h.string_table_offset > 0 /\ h.string_table_offset < SMOF_HEADER_SIZE)
        /\ ~(h.reloc_table_offset > 0 /\ h.reloc_table_offset < SMOF_HEADER_SIZE)
        /\ ~( /\ h.section_count > 0
              /\ h.string_table_offset > 0
              /\ h.string_table_offset > h.section_table_offset
              /\ h.string_table_offset < h.section_table_offset + section_table_size )
        /\ ~( /\ h.reloc_count > 0
              /\ h.string_table_offset > 0
              /\ h.string_table_offset > h.reloc_table_offset
              /\ h.string_table_offset < h.reloc_table_offset + reloc_table_size )

(***************************************************************************)
(* Linker driver: src/src/stld/linker.c                                    *)
(***************************************************************************)
NoContext == [valid |-> FALSE]
NullOptions == [null |-> TRUE]

\* The options bundles the model passes to stld_context_create.
OptionSet ==
    { [null |-> FALSE, output_type |-> t, base_address |-> 4096] :
        t \in {STLD_OUTPUT_EXECUTABLE, STLD_OUTPUT_BINARY_FLAT} }

\* Paths the caller may add as inputs.
Paths == {"a.o", "b.o"}

\* What load_smof_file finds at an input path.
FileKinds == {"missing", "short", "badheader", "valid"}

\* Indeterminate values: stld_context_create and load_smof_file malloc their
\* structures and leave these fields unset.
GarbageBindings == {SMOF_BIND_GLOBAL, SMOF_BIND_WEAK}
GarbageAddrs == {0, 16}
GarbageRelocEntries ==
    [ offset : {0},
      symbol_index : {0, 2},
      type : {SMOF_RELOC_ABS32, SMOF_RELOC_REL32, SMOF_RELOC_ABS16, SMOF_RELOC_GOT},
      section_index : {0} ]
RECURSIVE SeqsUpTo(_, _)
SeqsUpTo(S, n) ==
    IF n = 0 THEN { <<>> }
    ELSE LET shorter == SeqsUpTo(S, n - 1)
         IN  shorter \cup { Append(s, e) : s \in shorter, e \in S }
GarbageRelocLists == SeqsUpTo(GarbageRelocEntries, MaxRelocs)

Wild == [wild |-> TRUE, entries |-> <<>>]
Unread == [wild |-> FALSE, entries |-> <<>>]

IdleLink ==
    [ pc |-> "idle", i |-> 0, result |-> ERROR_SUCCESS, unresolved_count |-> 0,
      progress |-> <<>>, patches |-> {}, relocs_read |-> FALSE, open_inputs |-> 0,
      phases |-> <<>> ]

NoOutput == [exists |-> FALSE, open |-> FALSE, format |-> "none", bytes |-> <<>>,
             from_this_link |-> FALSE]

LinkInit ==
    /\ context = NoContext
    /\ link = IdleLink
    /\ output \in { NoOutput,
                    [NoOutput EXCEPT !.exists = TRUE, !.format = "stale"] }
    /\ last = [op |-> "none", result |-> ERROR_SUCCESS]
    /\ symtab = SymtabEmpty
    /\ engine = EngineEmpty
    /\ manager = ManagerEmpty
    /\ star = StarIdle
    /\ reader = ReaderIdle
    /\ pool = NoPool

\* stld_context_create: NULL options give no context; otherwise the options are
\* copied, symbols and sections start empty, and relocations is left unset.
stld_context_create(options) ==
    /\ context = NoContext
    /\ link.pc = "idle"
    /\ IF options.null
       THEN /\ context' = NoContext
            /\ last' = [op |-> "create", result |-> ERROR_INVALID_ARGUMENT]
       ELSE /\ context' = [ valid |-> TRUE, options |-> options, symbols |-> <<>>,
                            sections |-> <<>>, relocations |-> Unread,
                            input_files |-> <<>> ]
            /\ last' = [op |-> "create", result |-> ERROR_SUCCESS]
    /\ UNCHANGED <<link, output>>
    /\ UNCHANGED nonLinkVars

\* stld_add_input_file: the filename is appended to input_files.
stld_add_input_file(filename) ==
    /\ context.valid
    /\ link.pc = "idle"
    /\ Len(context.input_files) < MaxInputs
    /\ context' = [context EXCEPT !.input_files = Append(@, filename)]
    /\ last' = [op |-> "add_input", result |-> ERROR_SUCCESS]
    /\ UNCHANGED <<link, output>>
    /\ UNCHANGED nonLinkVars

\* stld_link, entry: progress 0 and 25 are reported, then the load loop starts.
stld_link_enter ==
    /\ context.valid
    /\ link.pc = "idle"
    /\ link' = [IdleLink EXCEPT !.pc = "load", !.i = 1, !.progress = <<0, 25>>,
                                !.open_inputs = link.open_inputs,
                                !.phases = <<"Load">>]
    /\ output' = [output EXCEPT !.from_this_link = FALSE]
    /\ last' = [op |-> "link", result |-> ERROR_SUCCESS]
    /\ UNCHANGED context
    /\ UNCHANGED nonLinkVars

\* load_smof_file: what it returns for a file of the given kind.
load_result(kind) ==
    CASE kind = "missing" -> ERROR_FILE_IO
      [] kind = "short" -> ERROR_FILE_IO
      [] kind = "badheader" -> ERROR_CORRUPT_HEADER
      [] OTHER -> ERROR_SUCCESS

\* A variant of load_open_handles that returns without fclose when the header
\* could not be read.
load_open_handles_short_not_closed(kind) ==
    LET opened == IF kind = "missing" THEN 0 ELSE 1
        closed == CASE kind = "short" -> 0
                    [] kind = "badheader" -> 1
                    [] kind = "valid" -> 1
                    [] OTHER -> 0
    IN  opened - closed

\* load_smof_file: the number of input handles it leaves open when it returns:
\* the one fopen gave it, less the fclose of the path it takes.
load_open_handles(kind) ==
    LET opened == IF kind = "missing" THEN 0 ELSE 1
        closed == CASE kind = "short" -> 1
                    [] kind = "badheader" -> 1
                    [] kind = "valid" -> 1
                    [] OTHER -> 0
    IN  opened - closed

\* load_smof_file on success: one ".text" section and one "_start" symbol are
\* pushed at the head of the context's lists.  `file` is the position of the
\* input the node came from (the identity of the node).
load_smof_file(ctx, i, binding, addr) ==
    [ ctx EXCEPT
        !.sections = << [ name |-> ".text", size |-> 0, virtual_address |-> addr,
                          file |-> i ] >> \o @,
        !.symbols = << [ name |-> "_start", value |-> 0, binding |-> binding,
                         file |-> i ] >> \o @ ]

\* stld_link, one round of the load loop.
stld_link_load ==
    /\ link.pc = "load"
    /\ link.i <= Len(context.input_files)
    /\ \E kind \in FileKinds, binding \in GarbageBindings, addr \in GarbageAddrs :
          IF load_result(kind) # ERROR_SUCCESS
          THEN /\ link' = [link EXCEPT !.pc = "done", !.result = load_result(kind),
                                       !.open_inputs = @ + load_open_handles(kind)]
               /\ last' = [op |-> "link", result |-> load_result(kind)]
               /\ UNCHANGED context
          ELSE /\ context' = load_smof_file(context, link.i, binding, addr)
               /\ link' = [link EXCEPT !.i = @ + 1,
                                       !.open_inputs = @ + load_open_handles(kind)]
               /\ UNCHANGED last
    /\ UNCHANGED output
    /\ UNCHANGED nonLinkVars

\* find_symbol: the first node of the list with that name.
find_symbol(ctx, name) ==
    LET hits == { k \in 1..Len(ctx.symbols) : ctx.symbols[k].name = name }
    IN  IF hits = {} THEN 0
        ELSE CHOOSE k \in hits : \A j \in hits : k <= j

\* process_relocations, the symbol a relocation's index walks to (0 for NULL).
reloc_symbol(ctx, reloc) ==
    IF reloc.symbol_index < Len(ctx.symbols) THEN reloc.symbol_index + 1 ELSE 0

\* process_relocations, the switch on the type: does this entry count as
\* unresolved?
reloc_counts_unresolved(ctx, reloc) ==
    IF reloc_symbol(ctx, reloc) # 0
    THEN reloc.type \notin {SMOF_RELOC_ABS32, SMOF_RELOC_REL32}
    ELSE TRUE

\* process_relocations: the number of entries counted as unresolved.
process_relocations_count(ctx, relocs) ==
    Cardinality({ k \in 1..Len(relocs) : reloc_counts_unresolved(ctx, relocs[k]) })

\* process_relocations: its return value.
process_relocations(ctx, relocs) ==
    IF process_relocations_count(ctx, relocs) = 0
    THEN ERROR_SUCCESS ELSE ERROR_SYMBOL_NOT_FOUND

\* stld_link, after the load loop: progress 50, process_relocations, and on
\* success progress 75 and 90.  `phases` lists, in the order the code reaches
\* them, the phases it announces to the progress callback ("Loading objects",
\* "Resolving symbols", "Layout sections", "Writing output") and its call of
\* process_relocations ("Relocate").  context->relocations is read here for the first
\* time; it was never set, so what is read is indeterminate: a list of entries,
\* or a pointer the walk faults on.
stld_link_relocate ==
    /\ link.pc = "load"
    /\ link.i > Len(context.input_files)
    /\ \/ /\ context' = [context EXCEPT !.relocations = Wild]
          /\ link' = [link EXCEPT !.pc = "crashed", !.progress = Append(@, 50),
                                  !.relocs_read = TRUE,
                                  !.phases = @ \o <<"Resolve", "Relocate">>]
          /\ last' = [op |-> "link", result |-> ERROR_SUCCESS]
       \/ \E relocs \in GarbageRelocLists :
            LET result == process_relocations(context, relocs)
                count == process_relocations_count(context, relocs)
            IN  /\ context' = [context EXCEPT
                                 !.relocations = [wild |-> FALSE, entries |-> relocs]]
                /\ IF result # ERROR_SUCCESS
                   THEN link' = [link EXCEPT !.pc = "done", !.result = result,
                                   !.unresolved_count = count,
                                   !.progress = Append(@, 50), !.relocs_read = TRUE,
                                   !.phases = @ \o <<"Resolve", "Relocate">>]
                   ELSE link' = [link EXCEPT !.pc = "emit",
                                   !.unresolved_count = count,
                                   !.progress = @ \o <<50, 75, 90>>,
                                   !.relocs_read = TRUE,
                                   !.phases = @ \o <<"Resolve", "Relocate",
                                                     "Layout", "Emit">>]
                /\ last' = [op |-> "link", result |-> result]
    /\ UNCHANGED output
    /\ UNCHANGED nonLinkVars

\* The bytes stld_link writes for the output type.
output_image(options) ==
    IF options.output_type = STLD_OUTPUT_BINARY_FLAT
    THEN [format |-> "flat", bytes |-> <<144, 144, 144, 144>>]
    ELSE [format |-> "smof", bytes |-> <<>>]

\* A variant of the emit step that checks fwrite and returns the error with the
\* file left behind.
stld_link_emit_checked_write ==
    /\ link.pc = "emit"
    /\ \E opened \in BOOLEAN, written \in BOOLEAN :
          IF ~opened
          THEN /\ link' = [link EXCEPT !.pc = "done", !.result = ERROR_FILE_IO]
               /\ last' = [op |-> "link", result |-> ERROR_FILE_IO]
               /\ UNCHANGED output
          ELSE /\ output' = [ exists |-> TRUE, open |-> FALSE,
                              format |-> IF written
                                         THEN output_image(context.options).format
                                         ELSE "empty",
                              bytes |-> IF written
                                        THEN output_image(context.options).bytes
                                        ELSE <<>>,
                              from_this_link |-> TRUE ]
               /\ IF written
                  THEN /\ link' = [link EXCEPT !.pc = "done",
                                     !.result = ERROR_SUCCESS,
                                     !.progress = Append(@, 100)]
                       /\ last' = [op |-> "link", result |-> ERROR_SUCCESS]
                  ELSE /\ link' = [link EXCEPT !.pc = "done",
                                     !.result = ERROR_FILE_IO]
                       /\ last' = [op |-> "link", result |-> ERROR_FILE_IO]
    /\ UNCHANGED context
    /\ UNCHANGED nonLinkVars

\* stld_link, the emit step: fopen "wb", one unchecked fwrite, fclose,
\* progress 100, success.
stld_link_emit ==
    /\ link.pc = "emit"
    /\ \E opened \in BOOLEAN, written \in BOOLEAN :
          IF ~opened
          THEN /\ link' = [link EXCEPT !.pc = "done", !.result = ERROR_FILE_IO]
               /\ last' = [op |-> "link", result |-> ERROR_FILE_IO]
               /\ UNCHANGED output
          ELSE /\ output' = [ exists |-> TRUE, open |-> FALSE,
                              format |-> IF written
                                         THEN output_image(context.options).format
                                         ELSE "empty",
                              bytes |-> IF written
                                        THEN output_image(context.options).bytes
                                        ELSE <<>>,
                              from_this_link |-> TRUE ]
               /\ link' = [link EXCEPT !.pc = "done", !.result = ERROR_SUCCESS,
                                       !.progress = Append(@, 100)]
               /\ last' = [op |-> "link", result |-> ERROR_SUCCESS]
    /\ UNCHANGED context
    /\ UNCHANGED nonLinkVars

\* stld_link_files, its argument check: the result it returns before creating
\* a context, ERROR_SUCCESS where it goes on to create one.
stld_link_files_arguments(input_count) ==
    IF input_count = 0 THEN ERROR_INVALID_ARGUMENT ELSE ERROR_SUCCESS

\* stld_get_default_options, the fields the model keeps
stld_get_default_options ==
    [null |-> FALSE, output_type |-> STLD_OUTPUT_EXECUTABLE, base_address |-> 4096]

\* stld_link_files, after its argument check: the result it returns when
\* stld_context_create(options) gives it no context, ERROR_SUCCESS where it
\* goes on with the context.
stld_link_files_context(options) ==
    IF options.null THEN ERROR_OUT_OF_MEMORY ELSE ERROR_SUCCESS

\* main: whether it exits with EXIT_FAILURE on its check of the input files
\* collected from the command line.
main_no_input_failure(input_count) == input_count = 0

\* load_smof_file, what the file at the path is to it
file_kind(file) ==
    IF ~file.exists THEN "missing"
    ELSE IF file.size < SMOF_HEADER_SIZE THEN "short"
    ELSE IF ~smof_validate_header(file.header) THEN "badheader"
    ELSE "valid"

\* load_smof_file on a file on disk: fopen "rb", fread of one header,
\* smof_validate_header, fclose.
load_smof_file_on_disk ==
    /\ ~reader.loaded
    /\ reader' = [reader EXCEPT !.loaded = TRUE,
                                !.result = load_result(file_kind(reader.smof))]
    /\ UNCHANGED nonReaderVars

\* archive_open(path, "rb") on an archive file on disk
archive_open_on_disk ==
    /\ ~reader.opened
    /\ reader' = [reader EXCEPT !.opened = TRUE,
                                !.handle = archive_open(reader.star)]
    /\ UNCHANGED nonReaderVars

LinkNext ==
    \/ \E options \in OptionSet \cup {NullOptions} : stld_context_create(options)
    \/ \E filename \in Paths : stld_add_input_file(filename)
    \/ stld_link_enter
    \/ stld_link_load
    \/ stld_link_relocate
    \/ stld_link_emit

SpecLink == LinkInit /\ [][LinkNext]_vars

SymtabNext ==
    \/ \E sym \in SymbolInputs : SymtabInsert(sym)
    \/ \E name \in SymNames : SymtabLookup(name)
    \/ SymtabClearError

SymtabInit ==
    /\ context = NoContext
    /\ link = IdleLink
    /\ output = NoOutput
    /\ last = [op |-> "none", result |-> ERROR_SUCCESS]
    /\ symtab = SymtabEmpty
    /\ engine = EngineEmpty
    /\ manager = ManagerEmpty
    /\ star = StarIdle
    /\ reader = ReaderIdle
    /\ pool = NoPool

SpecSymtab == SymtabInit /\ [][SymtabNext]_vars

EngineInit ==
    /\ context = NoContext
    /\ link = IdleLink
    /\ output = NoOutput
    /\ last = [op |-> "none", result |-> ERROR_SUCCESS]
    /\ symtab = SymtabEmpty
    /\ engine = EngineEmpty
    /\ manager = ManagerEmpty
    /\ star = StarIdle
    /\ reader = ReaderIdle
    /\ pool = NoPool

EngineNext ==
    \/ \E entry \in EngineEntries : relocation_engine_add_entry(entry)
    \/ relocation_engine_process_all
    \/ relocation_engine_create

SpecReloc == EngineInit /\ [][EngineNext]_vars

ManagerInit ==
    /\ context = NoContext
    /\ link = IdleLink
    /\ output = NoOutput
    /\ last = [op |-> "none", result |-> ERROR_SUCCESS]
    /\ symtab = SymtabEmpty
    /\ engine = EngineEmpty
    /\ manager = ManagerEmpty
    /\ star = StarIdle
    /\ reader = ReaderIdle
    /\ pool = NoPool

ManagerNext ==
    \/ \E kind \in SectionKinds : section_manager_create_section(kind)
    \/ \E id \in 1..MaxSections, a \in AlignmentInputs :
          section_manager_set_alignment(id, a)
    \/ \E id \in 1..MaxSections, n \in SizeInputs :
          section_manager_set_size(id, n)
    \/ \E id \in 1..MaxSections, addr \in AddressInputs :
          section_manager_assign_address(id, addr)
    \/ \E base \in BaseInputs : section_manager_calculate_layout(base)

SpecLayout == ManagerInit /\ [][ManagerNext]_vars

FileLists == SeqsUpTo(MemberNames, MaxMembers)
MemberLists == SeqsUpTo(MemberNames, 1)

\* What malloc(0) may do: return a pointer (TRUE) or NULL (FALSE).  The choice
\* is only drawn where a call reaches malloc(0).
Malloc0(reached) == IF reached THEN BOOLEAN ELSE {TRUE}
TamperBytes == {8}
\* the array size star_list_archive is called with (the command line passes
\* 1000; the archives here hold one to three members)
ListCapacities == {1}
\* the byte changed is the first byte of member data in the file
TamperPositions == { star.disk.header.string_table_size + 1 }

\* The input files on disk: "a" holds bytes; "b" is missing, empty or holds
\* bytes.
InputFiles ==
    { files \in [MemberNames -> Files] :
        files[<<97>>].exists /\ files[<<97>>].data # <<>> }

StarInit ==
    /\ context = NoContext
    /\ link = IdleLink
    /\ output = NoOutput
    /\ last = [op |-> "none", result |-> ERROR_SUCCESS]
    /\ symtab = SymtabEmpty
    /\ engine = EngineEmpty
    /\ manager = ManagerEmpty
    /\ \E files \in InputFiles : star = [StarIdle EXCEPT !.fs = files]
    /\ reader = ReaderIdle
    /\ pool = NoPool

StarNext ==
    \/ \E options \in StarOptions, file_list \in FileLists, now \in Times :
          \E malloc0 \in Malloc0(\E k \in 1..Len(file_list) :
                                    star.fs[file_list[k]] = [exists |-> TRUE, data |-> <<>>]) :
             star_create_archive(options, file_list, now, malloc0)
    \/ \E member_list \in MemberLists,
          malloc0 \in Malloc0(\E k \in 1..Len(star.disk.table) :
                                 star.disk.table[k].size = 0) :
          star_extract_archive(member_list, malloc0)
    \/ \E p \in TamperPositions, v \in TamperBytes : StarTamper(p, v)
    \/ archive_reopen_finalize
    \/ \E name \in MemberNames :
          \E malloc0 \in Malloc0(star.fs[name] = [exists |-> TRUE, data |-> <<>>]) :
             archive_append_member(name, malloc0)
    \/ \E capacity \in ListCapacities : star_list_archive(capacity)
    \/ \E member_list \in MemberLists : star_delete_members(member_list)

SpecStar == StarInit /\ [][StarNext]_vars

\* The SMOF headers the header reader is given.
SmofHeaders ==
    { [ZeroSmofHeader EXCEPT
          !.magic = magic, !.version = SMOF_VERSION_CURRENT, !.flags = flags,
          !.section_count = section_count, !.symbol_count = 1,
          !.string_table_offset = string_table_offset, !.string_table_size = 16,
          !.section_table_offset = section_table_offset,
          !.reloc_table_offset = 92, !.reloc_count = reloc_count] :
        magic \in {SMOF_MAGIC, 0},
        flags \in {0, 16, 48, SMOF_FLAG_LITTLE_ENDIAN, SMOF_FLAG_BIG_ENDIAN,
                   SMOF_FLAG_LITTLE_ENDIAN + SMOF_FLAG_BIG_ENDIAN},
        section_count \in 0..MaxSections,
        string_table_offset \in {0, 36, 46, 52, 96},
        section_table_offset \in {0, 36, 52},
        reloc_count \in {0, 1} }
SmofFileSizes == {20, 36, 60, 200}
SmofFiles ==
    {NoSmofFile} \cup [exists : {TRUE}, size : SmofFileSizes, header : SmofHeaders]

\* The archive files the header reader is given: what archive_create writes,
\* with the endianness bits of the flags as found on disk.
StarEndianFlags ==
    {0, STAR_FLAG_LITTLE_ENDIAN, STAR_FLAG_BIG_ENDIAN,
     STAR_FLAG_LITTLE_ENDIAN + STAR_FLAG_BIG_ENDIAN}
StarHeaderFiles ==
    { [EmptyArchiveFile EXCEPT
          !.size_ok = TRUE,
          !.header = [ZeroHeader EXCEPT
                        !.magic = STAR_MAGIC, !.version = version,
                        !.flags = STAR_FLAG_INDEXED + flags,
                        !.string_table_size = 1, !.creation_time = FileTime]] :
        version \in {STAR_VERSION, STAR_VERSION + 1}, flags \in StarEndianFlags }

ReaderInit ==
    /\ context = NoContext
    /\ link = IdleLink
    /\ output = NoOutput
    /\ last = [op |-> "none", result |-> ERROR_SUCCESS]
    /\ symtab = SymtabEmpty
    /\ engine = EngineEmpty
    /\ manager = ManagerEmpty
    /\ star = StarIdle
    /\ \E file \in SmofFiles, archive \in StarHeaderFiles :
          reader = [ReaderIdle EXCEPT !.smof = file, !.star = archive]
    /\ pool = NoPool

ReaderNext ==
    \/ load_smof_file_on_disk
    \/ archive_open_on_disk

SpecHeader == ReaderInit /\ [][ReaderNext]_vars

\* The sizes given to memory_pool_create and memory_pool_alloc.
PoolSizes == {32, 64, 128}
AllocSizes == {0, 1, 24, 64, 100}
PoolBlocks == [ptr : 0..128, size : AllocSizes]

PoolInit ==
    /\ context = NoContext
    /\ link = IdleLink
    /\ output = NoOutput
    /\ last = [op |-> "none", result |-> ERROR_SUCCESS]
    /\ symtab = SymtabEmpty
    /\ engine = EngineEmpty
    /\ manager = ManagerEmpty
    /\ star = StarIdle
    /\ reader = ReaderIdle
    /\ pool = NoPool

PoolNext ==
    \/ \E size \in PoolSizes : PoolCreate(size)
    \/ \E size \in AllocSizes : PoolAlloc(size)
    \/ \E block \in PoolBlocks : PoolFree(block)
    \/ PoolReset

SpecPool == PoolInit /\ [][PoolNext]_vars

(***************************************************************************)
(* Claims about the linker driver.                                         *)
(***************************************************************************)
\* The load loop of the running link has taken every input.
LoadComplete ==
    /\ context.valid
    /\ link.pc \in {"emit", "done"}
    /\ link.relocs_read

\* The positions in context.symbols of the definitions of a name.
Definitions(name) ==
    { k \in 1..Len(context.symbols) : context.symbols[k].name = name }

\* process_relocations has walked a list of relocation entries.
RelocsProcessed == link.relocs_read /\ ~context.relocations.wild

RelocEntry(k) == context.relocations.entries[k]
RelocResolved(k) == reloc_symbol(context, RelocEntry(k)) # 0

\* S, A and P of entry k: the linker's relocation record has no addend.
RelocS(k) == context.symbols[reloc_symbol(context, RelocEntry(k))].value
RelocA(k) == 0
RelocP(k) ==
    context.sections[RelocEntry(k).section_index + 1].virtual_address
        + RelocEntry(k).offset

\* C3 (as claimed): when a name has several WEAK definitions and no GLOBAL one,
\* the resolved definition is the one from the earliest input and the later
\* ones are discarded.
C3_WeakFirstSeenWins ==
    LoadComplete =>
        \A name \in {"_start"} :
            LET defs == Definitions(name)
            IN  ( /\ Cardinality(defs) >= 2
                  /\ \A k \in defs : context.symbols[k].binding = SMOF_BIND_WEAK )
                => /\ find_symbol(context, name) # 0
                   /\ \A k \in defs :
                         context.symbols[find_symbol(context, name)].file
                             <= context.symbols[k].file

\* C4 (as claimed): process_relocations attempts every entry; on return every
\* entry with a resolved symbol has been applied, the entries counted as
\* unresolved are exactly those whose symbol could not be resolved, and failure
\* is reported whenever there is one.
C4_ProcessAllCollectsUnresolved ==
    RelocsProcessed =>
        LET n == Len(context.relocations.entries)
            unresolved == { k \in 1..n : ~RelocResolved(k) }
        IN  /\ link.unresolved_count = Cardinality(unresolved)
            /\ \A k \in 1..n :
                  RelocResolved(k) => \E p \in link.patches : p.reloc = k
            /\ (unresolved # {}) => link.result # ERROR_SUCCESS

\* C5 (as claimed): for every REL32 relocation with a resolved symbol the four
\* bytes written at its offset are the little-endian form of S + A - P - 4
\* modulo 2^32.
C5_Rel32Value ==
    RelocsProcessed =>
        \A k \in 1..Len(context.relocations.entries) :
            (RelocEntry(k).type = SMOF_RELOC_REL32 /\ RelocResolved(k))
            => \E p \in link.patches :
                  /\ p.reloc = k
                  /\ p.bytes = LE32(RelocS(k) + RelocA(k) - RelocP(k) - 4)

\* C8: a link that has returned a failing result has left no output of its own
\* at the output path, and no open handle on it.
C8_NoOutputOnFailure ==
    (link.pc = "done" /\ link.result # ERROR_SUCCESS)
        => (~output.from_this_link /\ ~output.open)

C8_Witness ==
    /\ link.pc = "done"
    /\ link.result = ERROR_SYMBOL_NOT_FOUND
    /\ Len(context.symbols) = 2
    /\ ~output.from_this_link


\* C17 (as claimed): a link with an empty list of input files fails with a
\* non-zero result at every entry point: the command line, stld_link_files, and
\* stld_link on a context to which no input file was added.
C17_EmptyLinkFails ==
    /\ main_no_input_failure(0)
    /\ stld_link_files_arguments(0) # ERROR_SUCCESS
    /\ (context.valid /\ link.pc = "done" /\ context.input_files = <<>>)
          => link.result # ERROR_SUCCESS


\* The number of payload bytes the linked sections hold, in list order.
RECURSIVE PayloadSize(_)
PayloadSize(sections) ==
    IF sections = <<>> THEN 0
    ELSE sections[1].size + PayloadSize(Tail(sections))

\* C18 (as claimed): for output type BINARY_FLAT a successful link writes
\* exactly the payload bytes of the linked sections, with no header: the output
\* holds as many bytes as the sections do (with no gap to fill between them).
C18_FlatOutputIsPayload ==
    ( /\ context.valid
      /\ link.pc = "done"
      /\ link.result = ERROR_SUCCESS
      /\ context.options.output_type = STLD_OUTPUT_BINARY_FLAT )
    => /\ output.from_this_link
       /\ Len(output.bytes) = PayloadSize(context.sections)


\* C19: every file load_smof_file opened is closed when it returns, on the
\* success path and on every error path, so no input file handle is open
\* between the loads and after the link has returned.
C19_InputHandlesClosed == link.open_inputs = 0

\* a link that loaded one input and returned on the invalid header of the next
C19_Witness ==
    /\ link.pc = "done"
    /\ link.result = ERROR_CORRUPT_HEADER
    /\ Len(context.sections) = 1
    /\ link.open_inputs = 0


\* A relocation type that is reserved (GOT, PLT) or outside the enumerated set.
ReservedOrUnknown(type) ==
    \/ type \in {SMOF_RELOC_GOT, SMOF_RELOC_PLT}
    \/ type \notin SMOF_RELOC_NONE..SMOF_RELOC_PLT

\* C20 (as claimed): when process_relocations meets a relocation of type GOT or
\* PLT, or of a type outside the enumerated set, the link fails with
\* RELOCATION_FAILED and the relocation is not applied.
C20_ReservedTypeRejected ==
    RelocsProcessed =>
        \A k \in 1..Len(context.relocations.entries) :
            ReservedOrUnknown(RelocEntry(k).type)
            => /\ link.result = ERROR_RELOCATION_FAILED
               /\ ~\E p \in link.patches : p.reloc = k


\* C22 (as claimed): NULL options select the defaults: stld_context_create(NULL)
\* yields a context configured with stld_get_default_options, and
\* stld_link_files with options == NULL does not fail for lack of options.
C22_NullOptionsAreDefaults ==
    [][ stld_context_create(NullOptions)
          => /\ context'.valid
             /\ context'.options = stld_get_default_options
             /\ stld_link_files_context(NullOptions) = ERROR_SUCCESS ]_vars


\* The entries of a collection come in input order: walking the list from its
\* head, the entry of an earlier input is met before that of a later one.
InInputOrder(list) ==
    \A j, k \in 1..Len(list) : j < k => list[j].file <= list[k].file

\* C25 (as claimed): for inputs added in the order f1, ..., fn the linker's
\* symbol and section collections enumerate the entries of an earlier input
\* before those of every later input.
C25_CollectionsInInputOrder ==
    LoadComplete =>
        /\ InInputOrder(context.symbols)
        /\ InInputOrder(context.sections)


\* The place of a phase in the order Load, Resolve, Layout, Relocate, Emit.
PhaseRank(phase) ==
    CASE phase = "Load" -> 1
      [] phase = "Resolve" -> 2
      [] phase = "Layout" -> 3
      [] phase = "Relocate" -> 4
      [] phase = "Emit" -> 5

\* C26 (as claimed): a link runs its phases in the order Load, Resolve, Layout,
\* Relocate, Emit, so that relocations are processed only after layout, and
\* once a phase has failed no later phase runs.
C26_PhasesInOrder ==
    /\ \A j, k \in 1..Len(link.phases) :
          j < k => PhaseRank(link.phases[j]) < PhaseRank(link.phases[k])
    /\ (link.pc = "done" /\ link.result # ERROR_SUCCESS
           /\ link.i <= Len(context.input_files))
          => link.phases = <<"Load">>
    /\ (link.pc = "done" /\ link.result = ERROR_SYMBOL_NOT_FOUND)
          => link.phases[Len(link.phases)] = "Relocate"


(***************************************************************************)
(* Symbol table claims (SpecSymtab)                                        *)
(***************************************************************************)
InsertsOf(name, binding) ==
    { k \in 1..Len(symtab.inserted) :
        /\ symtab.inserted[k].sym.name = name
        /\ symtab.inserted[k].sym.binding = binding }

FirstOf(S) == CHOOSE k \in S : \A j \in S : k <= j

LiveDefinitions(name, binding) ==
    { k \in 1..Len(symtab.symbols) :
        /\ symtab.symbols[k].name = name
        /\ symtab.symbols[k].binding = binding
        /\ symtab.symbols[k].live }

\* C1: whenever a GLOBAL definition is inserted for a name that already has a
\* GLOBAL definition, the insert returns no handle and reports
\* DUPLICATE_SYMBOL, and the table keeps exactly one GLOBAL definition of the
\* name (the first one).
C1_DuplicateGlobalRejected ==
    \A k \in 1..Len(symtab.inserted) :
        LET call == symtab.inserted[k]
            earlier == { j \in InsertsOf(call.sym.name, SMOF_BIND_GLOBAL) : j < k }
        IN  (call.sym.binding = SMOF_BIND_GLOBAL /\ earlier # {}) =>
                /\ call.handle = SYMBOL_HANDLE_INVALID
                /\ call.error = ERROR_DUPLICATE_SYMBOL
                /\ Cardinality(LiveDefinitions(call.sym.name, SMOF_BIND_GLOBAL)) = 1
                /\ \A h \in LiveDefinitions(call.sym.name, SMOF_BIND_GLOBAL) :
                      symtab.symbols[h].value
                        = symtab.inserted[FirstOf(earlier)].sym.value

C1_Witness ==
    /\ Len(symtab.inserted) = 2
    /\ symtab.inserted[1].sym = [name |-> "foo", binding |-> SMOF_BIND_GLOBAL,
                                 value |-> 4096]
    /\ symtab.inserted[2].sym = [name |-> "foo", binding |-> SMOF_BIND_GLOBAL,
                                 value |-> 8192]
    /\ symtab.inserted[2].handle = SYMBOL_HANDLE_INVALID
    /\ symtab.error = ERROR_DUPLICATE_SYMBOL

\* C2: when a name has been given a GLOBAL definition and one or more WEAK
\* definitions, in whatever order, the name resolves to the GLOBAL definition
\* (its binding and its value), no WEAK definition of the name stays in the
\* table, and neither the WEAK inserts nor the GLOBAL one report an error.
C2_GlobalOverridesWeak ==
    \A name \in SymNames :
        LET globals == InsertsOf(name, SMOF_BIND_GLOBAL)
            weaks == InsertsOf(name, SMOF_BIND_WEAK)
            h == symbol_table_lookup(symtab.symbols, name)
        IN  (globals # {} /\ weaks # {}) =>
                /\ h # SYMBOL_HANDLE_INVALID
                /\ symtab.symbols[h].binding = SMOF_BIND_GLOBAL
                /\ symtab.symbols[h].value
                     = symtab.inserted[FirstOf(globals)].sym.value
                /\ LiveDefinitions(name, SMOF_BIND_WEAK) = {}
                /\ symtab.inserted[FirstOf(globals)].error = ERROR_SUCCESS
                /\ \A k \in weaks : symtab.inserted[k].error = ERROR_SUCCESS

C2_Witness ==
    /\ Len(symtab.inserted) = 3
    /\ symtab.inserted[1].sym = [name |-> "log", binding |-> SMOF_BIND_WEAK,
                                 value |-> 4096]
    /\ symtab.inserted[2].sym = [name |-> "log", binding |-> SMOF_BIND_GLOBAL,
                                 value |-> 8192]
    /\ symtab.inserted[3].sym = [name |-> "log", binding |-> SMOF_BIND_WEAK,
                                 value |-> 4096]
    /\ symtab.found # SYMBOL_HANDLE_INVALID
    /\ symtab.symbols[symtab.found].name = "log"
    /\ symtab.symbols[symtab.found].value = 8192
    /\ symtab.error = ERROR_SUCCESS


\* The table that the GLOBAL and WEAK inserts among the first n calls build on
\* their own.
RECURSIVE NonLocalTable(_)
NonLocalTable(n) ==
    IF n = 0 THEN <<>>
    ELSE IF symtab.inserted[n].sym.binding = SMOF_BIND_LOCAL
    THEN NonLocalTable(n - 1)
    ELSE symbol_table_insert(NonLocalTable(n - 1), symtab.inserted[n].sym).symbols

\* What a name resolves to in a table: no definition, or binding and value.
Resolution(symbols, name) ==
    LET h == resolved_definition(symbols, name)
    IN  IF h = SYMBOL_HANDLE_INVALID THEN <<"none">>
        ELSE <<"defined", symbols[h].binding, symbols[h].value>>

\* C21: a LOCAL symbol is accepted without an error whatever symbols of the
\* same name were inserted before, it stays in the table with its own value
\* whatever is inserted after it, and what every name resolves to is what the
\* GLOBAL and WEAK inserts alone determine.
C21_LocalNeverCollides ==
    /\ \A k \in 1..Len(symtab.inserted) :
          LET call == symtab.inserted[k]
          IN  call.sym.binding = SMOF_BIND_LOCAL =>
                 /\ call.error = ERROR_SUCCESS
                 /\ call.handle # SYMBOL_HANDLE_INVALID
                 /\ symtab.symbols[call.handle].live
                 /\ symtab.symbols[call.handle].binding = SMOF_BIND_LOCAL
                 /\ symtab.symbols[call.handle].value = call.sym.value
    /\ \A name \in SymNames :
          Resolution(symtab.symbols, name)
              = Resolution(NonLocalTable(Len(symtab.inserted)), name)

\* a LOCAL "foo" inserted between a WEAK and a GLOBAL definition of "foo"
C21_Witness ==
    /\ Len(symtab.inserted) = 3
    /\ symtab.inserted[1].sym = [name |-> "foo", binding |-> SMOF_BIND_WEAK,
                                 value |-> 4096]
    /\ symtab.inserted[2].sym = [name |-> "foo", binding |-> SMOF_BIND_LOCAL,
                                 value |-> 8192]
    /\ symtab.inserted[3].sym = [name |-> "foo", binding |-> SMOF_BIND_GLOBAL,
                                 value |-> 4096]
    /\ symtab.inserted[2].handle # SYMBOL_HANDLE_INVALID
    /\ symtab.found # SYMBOL_HANDLE_INVALID
    /\ symtab.symbols[symtab.found].binding = SMOF_BIND_GLOBAL
    /\ symtab.error = ERROR_SUCCESS


(***************************************************************************)
(* Relocation engine claims (SpecReloc)                                    *)
(***************************************************************************)
EntryValue(k) ==
    engine.entries[k].entry.symbol.value + engine.entries[k].entry.addend

EntryOverflows(k, type, limit) ==
    /\ engine.entries[k].entry.type = type
    /\ engine.entries[k].entry.symbol.defined
    /\ EntryValue(k) > limit

C7_LayoutAligned ==
    manager.laid_out =>
        \A id \in 1..Len(manager.sections) :
            mod32(manager.sections[id].virtual_addr,
                  manager.sections[id].alignment) = 0

C7_Witness ==
    /\ manager.laid_out
    /\ Len(manager.sections) = 2
    /\ manager.sections[1] = [category |-> "data", alignment |-> 16, size |-> 6,
                              virtual_addr |-> [hi |-> 1, lo |-> 16]]
    /\ manager.sections[2] = [category |-> "text", alignment |-> 1, size |-> 6,
                              virtual_addr |-> [hi |-> 1, lo |-> 1]]


\* addr + n without the uint32_t wrap: hi may reach Half and beyond.
add_exact(addr, n) ==
    [ hi |-> addr.hi + ((addr.lo + n) \div Half), lo |-> (addr.lo + n) % Half ]

\* a <= b for two addresses
le32(a, b) == a.hi < b.hi \/ (a.hi = b.hi /\ a.lo <= b.lo)

\* addr is the smallest multiple of a that is not below floor
SmallestMultipleFrom(addr, a, floor) ==
    /\ mod32(addr, a) = 0
    /\ le32(floor, addr)
    /\ addr.hi - floor.hi <= 1
    /\ ((addr.hi - floor.hi) * Half) + addr.lo - floor.lo < a

\* the end (address + size) of the section at position n of the order
SectionEnd(order, n) ==
    add_exact(manager.sections[order[n]].virtual_addr,
              manager.sections[order[n]].size)

\* the sections follow one another in layout order, each at the smallest
\* multiple of its alignment not below the end of the one before it (the
\* base for the first), and no two address ranges overlap
SequentialNoOverlap ==
    LET order == layout_order(manager.sections, 1)
        at(n) == manager.sections[order[n]]
    IN  /\ \A n \in 1..Len(order) :
               SmallestMultipleFrom(at(n).virtual_addr, at(n).alignment,
                                    IF n = 1 THEN manager.base
                                    ELSE SectionEnd(order, n - 1))
        /\ \A m, n \in 1..Len(order) :
               (m < n /\ at(m).size > 0 /\ at(n).size > 0)
                   => le32(SectionEnd(order, m), at(n).virtual_addr)

\* the cursor after the first n sections of the order, without the wrap
RECURSIVE ExactCursor(_, _, _, _)
ExactCursor(sections, order, n, base) ==
    IF n = 0 THEN base
    ELSE LET before == ExactCursor(sections, order, n - 1, base)
             a == sections[order[n]].alignment
         IN  add_exact(add_exact(before, (a - mod32(before, a)) % a),
                       sections[order[n]].size)

\* the layout from manager.base ends below 2^32
LayoutFits ==
    LET order == layout_order(manager.sections, 1)
    IN  ExactCursor(manager.sections, order, Len(order), manager.base).hi < Half

C9_ExtractedMatchesStoredChecksum ==
    \A k \in 1..Len(star.extracted) :
        archive_calculate_checksum(star.extracted[k].data)
            = checksum_value(star.extracted[k].checksum)

\* the archive on disk was left by a star_create_archive and nothing has
\* changed it since
ArchiveAsCreated == archive_open(star.disk) /\ ~star.tampered

\* C10 as stated: star_create_archive of a non-empty list of existing files,
\* whatever their sizes, succeeds; and extracting all members of an archive
\* so created succeeds and writes, for every member, the bytes of its input
\* file.
C10_CreateThenExtractRoundTrips ==
    /\ (/\ star.last.op = "create"
        /\ star.last.list # <<>>
        /\ \A k \in 1..Len(star.last.list) : star.fs[star.last.list[k]].exists)
          => star.last.result = ERROR_SUCCESS
    /\ (/\ star.last.op = "extract"
        /\ star.last.list = <<>>
        /\ ArchiveAsCreated)
          => /\ star.last.result = ERROR_SUCCESS
             /\ Len(star.extracted) = star.disk.header.member_count
             /\ \A k \in 1..Len(star.extracted) :
                    /\ star.extracted[k].data = star.fs[star.extracted[k].name].data
                    /\ star.out[star.extracted[k].name] = star.fs[star.extracted[k].name]

\* the 64 bytes of the header with the four bytes of the checksum field zero
header_bytes_checksum_zeroed(h) ==
    header_bytes([h EXCEPT !.checksum = ChecksumZero]) \o Zeros(4)

\* C11 as stated: the header of an archive that archive_finalize wrote holds,
\* in its checksum field, the CRC-32 of all 64 header bytes with the checksum
\* field taken as zero.
C11_HeaderChecksumOverWholeHeader ==
    archive_open(star.disk) =>
        checksum_value(star.disk.header.checksum)
            = archive_calculate_checksum(header_bytes_checksum_zeroed(star.disk.header))

\* The bytes of the archive file, as far as the model keeps them: the 64
\* header bytes, the member table entries with their checksum values, and
\* the bytes after the member table.
file_image(file) ==
    [ exists |-> file.exists, size_ok |-> file.size_ok,
      header |-> header_bytes([file.header EXCEPT !.checksum = ChecksumZero])
                   \o checksum_value(file.header.checksum),
      table |-> [i \in 1..Len(file.table) |->
                   [file.table[i] EXCEPT !.checksum = checksum_value(@)]],
      blob |-> file.blob ]

\* a step that re-serializes the archive file
RewriteStep ==
    /\ star'.rewrites = star.rewrites + 1
    /\ star'.last.op = "rewrite"

\* C12 as stated: re-opening an archive file that star_create_archive built
\* and serializing it again, with success, leaves a file with the same bytes.
C12_ReserializeIsByteIdentical ==
    [][(RewriteStep /\ ArchiveAsCreated /\ star.rewrites = 0
            /\ star'.last.result = ERROR_SUCCESS)
          => file_image(star'.disk) = file_image(star.disk)]_vars

\* a step of an archiver operation (not a change made from outside)
OperationStep == ~(~star.tampered /\ star'.tampered)

\* C13 as stated: an operation on an existing archive that returns an error
\* leaves the bytes of the archive file as they were.
C13_FailedOperationKeepsFile ==
    [][(OperationStep /\ archive_open(star.disk)
            /\ star'.last.result # ERROR_SUCCESS)
          => file_image(star'.disk) = file_image(star.disk)]_vars

\* the members a reader finds in the archive file, and the index of the first
\* one called `name` (0 if none)
MembersOf(file) == archive_load_members(file).members
FoundAt(file, name) == archive_find_member(MembersOf(file), name)

\* a step of star_delete_members that names one member
DeleteStep(name) ==
    /\ OperationStep
    /\ star'.last # star.last
    /\ star'.last.op = "delete"
    /\ star'.last.list = <<name>>

\* C14 as stated: when the removal of a member that is in the archive reports
\* success, that member is no longer found by name, the member count is one
\* less, and every other member is still found with its name and contents.
C14_RemovalDropsMember ==
    [][\A name \in MemberNames :
          (/\ DeleteStep(name)
           /\ star'.last.result = ERROR_SUCCESS
           /\ archive_open(star.disk)
           /\ FoundAt(star.disk, name) # 0)
             => /\ archive_open(star'.disk)
                /\ star'.disk.header.member_count = star.disk.header.member_count - 1
                /\ \A i \in 1..Len(MembersOf(star.disk)) :
                      LET m == MembersOf(star.disk)[i]
                          j == FoundAt(star'.disk, m.name)
                      IN  IF i = FoundAt(star.disk, name) THEN j = 0
                          ELSE /\ j # 0
                               /\ extract_member(star'.disk, MembersOf(star'.disk)[j], TRUE)
                                     = extract_member(star.disk, m, TRUE)]_vars

\* a step in which archive_finalize has run with success: of
\* star_create_archive, of a re-serialization, or after adding a member to an
\* existing archive
FinalizeStep ==
    /\ OperationStep
    /\ star'.last # star.last
    /\ star'.last.op \in {"create", "rewrite", "append"}
    /\ star'.last.result = ERROR_SUCCESS

\* the payload of member i of the archive a FinalizeStep leaves: the bytes of
\* its input file for a member added in this step, the bytes the file held
\* for it before for a member read from the existing file
MemberPayload(i) ==
    IF star'.last.op = "create" THEN star.fs[star'.last.list[i]].data
    ELSE IF i <= Len(star.disk.table)
    THEN read_item(star.disk, star.disk.table[i].data_offset,
                   star.disk.table[i].size).bytes
    ELSE star.fs[star'.last.list[1]].data

\* the bytes of file at the data_offset of its member-table entry i
BytesAtDataOffset(file, i) ==
    IF file.table[i].size = 0 THEN [ok |-> TRUE, bytes |-> <<>>]
    ELSE read_item(file, file.table[i].data_offset, file.table[i].size)

\* the payload ranges of file lie after the string table, in member-table
\* order, without overlapping
PayloadsInOrder(file) ==
    \A i \in 1..Len(file.table) :
        file.table[i].data_offset >=
            IF i = 1
            THEN file.header.string_table_offset + file.header.string_table_size
            ELSE file.table[i - 1].data_offset + file.table[i - 1].size

\* C28 as stated: after archive_finalize succeeds on a writable archive,
\* freshly created or opened from an existing file, the size bytes found in
\* the file at each member's data_offset are that member's payload, and the
\* payload ranges lie after the string table, in member-table order, without
\* overlapping.
C28_PayloadsAtDataOffsets ==
    [][FinalizeStep
          => /\ PayloadsInOrder(star'.disk)
             /\ \A i \in 1..Len(star'.disk.table) :
                    /\ BytesAtDataOffset(star'.disk, i).ok
                    /\ BytesAtDataOffset(star'.disk, i).bytes = MemberPayload(i)]_vars

\* C29 as stated: the final progress notification, percentage 100, is
\* delivered only by an operation that then returns success: a stld_link or a
\* star_create_archive that returned an error has not reported 100 percent.
C29_FinalProgressOnlyOnSuccess ==
    /\ (link.pc = "done" /\ link.result # ERROR_SUCCESS)
          => \A k \in 1..Len(link.progress) : link.progress[k] # 100
    /\ (star.last.op = "create" /\ star.last.result # ERROR_SUCCESS)
          => \A k \in 1..Len(star.progress) : star.progress[k] # 100

\* C30 as stated: star_list_archive writes no more entries than the capacity
\* passed in *count, and on success the value it leaves in *count does not
\* exceed the number of entries it wrote, so that entries 0..*count-1 are all
\* written and inside the caller's array.
C30_ListCountWithinFilled ==
    star.listing.called =>
        /\ Len(star.listing.entries) <= star.listing.capacity
        /\ star.listing.result = ERROR_SUCCESS
              => star.listing.count <= Len(star.listing.entries)

(***************************************************************************)
(* Header validation claims (SpecHeader)                                   *)
(***************************************************************************)
\* The byte ranges the header gives the section table and the string table.
\* (smof_header_t records no offset for the symbol table, so the header gives
\* it no range.)
SectionTable(h) ==
    [from |-> h.section_table_offset, size |-> h.section_count * SMOF_SECTION_SIZE]
StringTable(h) ==
    [from |-> h.string_table_offset, size |-> h.string_table_size]
Overlap(a, b) ==
    /\ a.size > 0
    /\ b.size > 0
    /\ a.from < b.from + b.size
    /\ b.from < a.from + a.size
BeyondEnd(t, file) == t.size > 0 /\ t.from + t.size > file.size

\* C15 (as claimed): load_smof_file rejects every file whose section table and
\* string table occupy overlapping byte ranges, and every file in which one of
\* these tables extends beyond the end of the file.
C15_OverlapOrTruncationRejected ==
    ( /\ reader.loaded
      /\ reader.smof.exists
      /\ \/ Overlap(SectionTable(reader.smof.header), StringTable(reader.smof.header))
         \/ BeyondEnd(SectionTable(reader.smof.header), reader.smof)
         \/ BeyondEnd(StringTable(reader.smof.header), reader.smof) )
    => reader.result # ERROR_SUCCESS

\* C16 (as claimed): a header is accepted only if exactly one of its
\* LITTLE_ENDIAN and BIG_ENDIAN flag bits is set, by load_smof_file for SMOF
\* headers and by archive_open for STAR headers.
C16_ExactlyOneEndianFlag ==
    /\ (reader.loaded /\ reader.result = ERROR_SUCCESS)
          => ( flag_set(reader.smof.header.flags, SMOF_FLAG_LITTLE_ENDIAN)
                 # flag_set(reader.smof.header.flags, SMOF_FLAG_BIG_ENDIAN) )
    /\ (reader.opened /\ reader.handle)
          => ( flag_set(reader.star.header.flags, STAR_FLAG_LITTLE_ENDIAN)
                 # flag_set(reader.star.header.flags, STAR_FLAG_BIG_ENDIAN) )

(***************************************************************************)
(* Memory pool claims (SpecPool)                                           *)
(***************************************************************************)
\* C23: right after memory_pool_reset, whatever was allocated before, used is 0
\* and available is the pool size, and an allocation of any size gives what it
\* gives on a fresh pool of that size: the same pointer, which is the first
\* pointer the pool returned before the reset, and the same usage.
C23_ResetInvalidatesAll ==
    pool.last.op = "reset" =>
        /\ memory_pool_get_used(pool) = 0
        /\ memory_pool_get_available(pool) = pool.size
        /\ \A size \in AllocSizes :
              LET again == memory_pool_alloc(pool, size)
                  fresh == memory_pool_alloc(memory_pool_create(pool.size), size)
              IN  /\ again.ptr = fresh.ptr
                  /\ again.pool.used = fresh.pool.used
                  /\ (again.ptr # NullPtr /\ pool.first # NullPtr)
                        => again.ptr = pool.first

\* a pool of 128 bytes reset after allocations of 24 and 64 bytes
C23_Witness ==
    /\ pool.last.op = "reset"
    /\ pool.size = 128
    /\ pool.allocations = 2
    /\ pool.peak_used = 88
    /\ pool.first = 0

FreeStep ==
    /\ pool'.last.op = "free"
    /\ pool'.deallocations = pool.deallocations + 1

====
